---------------------------- MODULE Spec2Model ----------------------------
(***************************************************************************)
(* Runtime core of the cycler framework: the slotted state buffer          *)
(* (framework::n_tuple_buffer), the historic archive                       *)
(* (framework::HistoricDatabases) and the cross-rate merge queue            *)
(* (framework::future_queue, framework::Update).                            *)
(*                                                                         *)
(* Each component has its own specification (SpecBuffer, SpecArchive,      *)
(* SpecQueue); the variables of the other components stay at their idle    *)
(* values in it. SpecMerge is the composed system of an owning real-time   *)
(* cycler, its Aggregate and archive and the registered producers;         *)
(* SpecCycler is the thread of one cycler (start and cycle as the cycler   *)
(* generator emits them) over its own buffer and producer queue.           *)
(***************************************************************************)
EXTENDS Integers, Sequences, FiniteSets, TLC

(* ------------------------------ bounds -------------------------------- *)
MaxSlots == 3
MaxValue == 1
MaxReaders == 2
MaxCapacity == 3
MaxTime == 3
MaxData == 1
MaxStamp == 4
MaxProducers == 2
MaxTick == 3
MaxAnnounces == 2
MaxCycles == 2
MaxConfiguration == 1
MaxStages == 3
MaxSenders == 2
MaxQueued == 1
MaxRequests == 2
MaxSteps == 2
MaxPathLen == 2

Values == 0..MaxValue
Readers == 1..MaxReaders
Times == 0..MaxTime
Stamps == 0..MaxStamp
Data == 0..MaxData
Producers == 1..MaxProducers

(* "absent" result of a lookup: Option::None *)
None == -1

VARIABLES
    (* slotted state buffer *)
    bufferState,     \* "unbuilt" | "ready" | "config_error"
    nSlots,          \* number of slots handed to the constructor
    slots,           \* slot index -> content
    current,         \* index of the slot visible to new reads
    writing,         \* set of slots with an open write handle
    handles,         \* reader -> open read handle [slot, seen] (slot 0: none)
    published,       \* content of the most recently released write handle
    writerStatus,    \* "ok" | "double_open" | "all_busy"
    (* historic archive *)
    capacity,        \* capacity C of the archive
    archive,         \* sequence of [ts, data], oldest first
    recorded,        \* every accepted record so far, oldest first
    archiveStatus,   \* "ok" | "out_of_order"
    lastCall,        \* last call on the archive: [op, t, data, result]
    (* merge queue of one producer *)
    openAnnounces,   \* announced, not finalized timestamps, in announce order
    completed,       \* finalized entries [ts, data], in finalize order
    lastAnnounced,   \* capture time of the newest announce (None: none yet)
    (* composed system: owner, its Aggregate, the registered producers *)
    producers,       \* number of registered producers (perception instances)
    inFlight,        \* producer -> announced, not finalized timestamps
    items,           \* producer -> finalized, not consumed [ts, data]
    newest,          \* producer -> capture time of its newest announce
    finalizes,       \* producer -> number of its finalizes; the n-th
                     \*   finalize carries the payload n
    now,             \* timestamp the owner originated last (0: none yet)
    databases,       \* the Aggregate: timestamp -> producer -> list of data
    reported,        \* earliest pending timestamp reported by the last drain
    ownerPc,         \* "tick" | "drain" | "prune": the owner's next step
    ownerStatus,     \* "ok" | "missing_entry"
    (* cycler thread *)
    cyclerPc,        \* "idle" | "boundary" | "open" | "first" | "announce" |
                     \*   "remaining" | "finalize" | "release" | "stopped"
    cancelled,       \* keep_running: the process-wide cancellation token
    threadResult,    \* "running" | "ok" | "err": what the thread returned
    cycles,          \* number of cycles started
    trace,           \* queue operations of the cycle in progress, in order
    kind,            \* "RealTime" | "Perception": the kind the cycler was
                     \*   generated for
    configuration,   \* version of the configuration published last
    configFirst,     \* version the first module of the cycle read
    configRest,      \* version the remaining modules of the cycle read
    (* simulator interface and the cycler threads that read from it *)
    ipc,             \* thread -> where it is in its loop
    ires,            \* thread -> "running" | "ok" | "err"
    keepRunningCancelled,  \* keep_running of the simulator process
    stepFailed,      \* the simulation step of this read_from_sensors failed
    cameraRequested, \* camera -> top_camera_requested, bottom_camera_requested
    cameraUnblocked, \* camera -> unblock_read was called
    simSteps,        \* calls of Robot::step so far
    arrivals,        \* barrier reader -> waits on its barrier entered so far
    returns,         \* barrier reader -> reads returned so far, Ok or Err
    completions,     \* calls of read_from_sensors returned so far
    (* module execution of one cycle *)
    required,        \* module -> its RequiredInput fields
    outputs,         \* main output field -> "none" | "some"
    stagePc,         \* the module the cycle executes next (0: no cycle)
    ran,             \* module -> "pending" | "ran" | "skipped" | "failed"
    (* parameter storage task *)
    storagePc,       \* "idle" | "start" | "recv" | "handle" | "publish" |
                     \*   "notify" | "respond" | "done" | "panicked"
    parameters,      \* the working copy of the task
    toPublish,       \* the value the request in progress publishes
    disk,            \* the parameters stored in the directory
    senders,         \* number of request senders alive
    requestQueue,    \* the requests in the channel, oldest first
    request,         \* the request in progress
    outcome,         \* "none" | "ok" | "err": result of the response
    nextId,          \* id of the next request sent
    responses,       \* the responses sent to clients, in order
    notifications,   \* number of notify_one calls on parameters_changed
    storageTrace,    \* "publish", "notify" of the request in progress
    (* struct hierarchy of the source analysis *)
    hierarchy,       \* the StructHierarchy the paths are inserted into
    insertedPath,    \* the path inserted last
    insertedType,    \* the data type inserted last
    insertionRules,  \* the insertion rules of the path inserted last
    insertResult,    \* "idle" | "none" | "ok" | "err": result of the last insert
    contextPc        \* the context whose field is inserted next

bufferVars == <<bufferState, nSlots, slots, current, writing, handles,
                published, writerStatus>>
archiveVars == <<capacity, archive, recorded, archiveStatus, lastCall>>
queueVars == <<openAnnounces, completed, lastAnnounced>>
mergeVars == <<producers, inFlight, items, newest, finalizes, now,
               databases, reported, ownerPc, ownerStatus>>
cyclerVars == <<cyclerPc, cancelled, threadResult, cycles, trace, kind,
                configuration, configFirst, configRest>>
interfaceVars == <<ipc, ires, keepRunningCancelled, stepFailed,
                   cameraRequested, cameraUnblocked, simSteps, arrivals,
                   returns, completions>>
stageVars == <<required, outputs, stagePc, ran>>
storageVars == <<storagePc, parameters, toPublish, disk, senders,
                 requestQueue, request, outcome, nextId, responses,
                 notifications, storageTrace>>
structVars == <<hierarchy, insertedPath, insertedType, insertionRules,
                insertResult, contextPc>>
vars == <<bufferVars, archiveVars, queueVars, mergeVars, cyclerVars,
         interfaceVars,
         stageVars,
         storageVars,
         structVars>>

(* ======================= slotted state buffer ========================= *)

NoHandle == [slot |-> 0, seen |-> 0]

SlotIndices == 1..nSlots

OpenHandles == {r \in Readers : handles[r].slot # 0}

(* slots some reader holds a handle on *)
HeldSlots == {handles[r].slot : r \in OpenHandles}

BufferIdle ==
    /\ bufferState = "unbuilt"
    /\ nSlots = 0
    /\ slots = <<>>
    /\ current = 0
    /\ writing = {}
    /\ handles = [r \in Readers |-> NoHandle]
    /\ published = 0
    /\ writerStatus = "ok"


(* Mutant: the writer takes any slot, also one a reader holds. *)
FreeSlotsIgnoringReaders == SlotIndices

(* Mutant: the writer never takes the current slot. *)
FreeSlotsExceptCurrent == (SlotIndices \ HeldSlots) \ {current}

(* Writer::next: the slots the writer may take, those no reader holds. *)
FreeSlots == SlotIndices \ HeldSlots

(* construction from a non-empty list of slots: the first slot is       *)
(* current. The parameter service's tests build a buffer of one slot,  *)
(* write to it and read the written content back.                       *)
multiple_buffer_with_slots(n, init) ==
    /\ bufferState = "unbuilt"
    /\ bufferState' = "ready"
    /\ nSlots' = n
    /\ slots' = init
    /\ current' = 1
    /\ published' = init[1]
    /\ UNCHANGED <<writing, handles, writerStatus>>

(* construction from an empty list of slots: there is no slot to be current *)
BufferWithoutSlots ==
    /\ bufferState = "unbuilt"
    /\ bufferState' = "config_error"
    /\ UNCHANGED <<nSlots, slots, current, writing, handles, published,
                   writerStatus>>

(* Mutant: a second write handle is handed out while one is open. *)
WriterNextUnchecked ==
    /\ bufferState = "ready"
    /\ writerStatus = "ok"
    /\ \E s \in FreeSlots \ writing : writing' = writing \cup {s}
    /\ UNCHANGED <<bufferState, nSlots, slots, current, handles, published,
                   writerStatus>>

(* Writer::next: open the write handle. A second open handle and a buffer  *)
(* without a free slot are fatal to the calling thread.                    *)
WriterNext ==
    /\ bufferState = "ready"
    /\ writerStatus = "ok"
    /\ IF writing # {}
       THEN writerStatus' = "double_open" /\ UNCHANGED writing
       ELSE IF FreeSlots = {}
            THEN writerStatus' = "all_busy" /\ UNCHANGED writing
            ELSE /\ \E s \in FreeSlots : writing' = {s}
                 /\ UNCHANGED writerStatus
    /\ UNCHANGED <<bufferState, nSlots, slots, current, handles, published>>

(* `*slot = value` through the open write handle (WriterGuard: DerefMut) *)
WriterGuardAssign(v) ==
    /\ writerStatus = "ok"
    /\ \E s \in writing : slots' = [slots EXCEPT ![s] = v]
    /\ UNCHANGED <<bufferState, nSlots, current, writing, handles, published,
                   writerStatus>>

(* Mutant: the released slot does not become current. *)
WriterGuardDropKeepsCurrent ==
    /\ \E s \in writing :
          /\ writing' = writing \ {s}
          /\ published' = slots[s]
    /\ UNCHANGED <<bufferState, nSlots, slots, current, handles, writerStatus>>

(* WriterGuard: Drop. The written slot becomes current. The handle is also *)
(* dropped when the writing thread unwinds.                                *)
WriterGuardDrop ==
    /\ \E s \in writing :
          /\ writing' = writing \ {s}
          /\ current' = s
          /\ published' = slots[s]
    /\ UNCHANGED <<bufferState, nSlots, slots, handles, writerStatus>>

(* Reader::next: a handle over the current slot. The write handle is       *)
(* exclusive: no read handle is handed out on a slot open for writing.     *)
ReaderNext(r) ==
    /\ bufferState = "ready"
    /\ handles[r] = NoHandle
    /\ current \notin writing
    /\ handles' = [handles EXCEPT
                      ![r] = [slot |-> current, seen |-> slots[current]]]
    /\ UNCHANGED <<bufferState, nSlots, slots, current, writing, published,
                   writerStatus>>

(* ReaderGuard: Drop *)
ReaderGuardDrop(r) ==
    /\ handles[r] # NoHandle
    /\ handles' = [handles EXCEPT ![r] = NoHandle]
    /\ UNCHANGED <<bufferState, nSlots, slots, current, writing, published,
                   writerStatus>>


(* ========================== historic archive ========================== *)

NoEntry == [ts |-> None, data |-> None]

NoCall == [op |-> "none", t |-> None, data |-> None, result |-> NoEntry]

ArchiveIdle ==
    /\ capacity = 0
    /\ archive = <<>>
    /\ recorded = <<>>
    /\ archiveStatus = "ok"
    /\ lastCall = NoCall

(* timestamp of the newest entry *)
Latest(a) == a[Len(a)].ts

(* Mutant: the order of the timestamps is not checked. *)
InOrderUnchecked(a, t) == TRUE

(* record: the timestamp is not earlier than the newest entry's *)
InOrder(a, t) == a = <<>> \/ t >= Latest(a)

(* record: insertion keyed by timestamp, an equal key replaces the value *)
Insert(a, t, v) ==
    IF a # <<>> /\ t = Latest(a)
    THEN [a EXCEPT ![Len(a)] = [ts |-> t, data |-> v]]
    ELSE Append(a, [ts |-> t, data |-> v])

(* Mutant: the newest entry is evicted instead of the oldest. *)
EvictNewest(a, c) == IF Len(a) > c THEN SubSeq(a, 1, c) ELSE a

(* record: over capacity the oldest entry is evicted *)
Evict(a, c) == IF Len(a) > c THEN Tail(a) ELSE a

(* record(timestamp, value) *)
record(t, v) ==
    /\ archiveStatus = "ok"
    /\ capacity > 0
    /\ lastCall' = [op |-> "record", t |-> t, data |-> v, result |-> NoEntry]
    /\ IF InOrder(archive, t)
       THEN /\ archive' = Evict(Insert(archive, t, v), capacity)
            /\ recorded' = Insert(recorded, t, v)
            /\ UNCHANGED archiveStatus
       ELSE /\ archiveStatus' = "out_of_order"
            /\ UNCHANGED <<archive, recorded>>
    /\ UNCHANGED capacity

RECURSIVE ScanExact(_, _, _)
ScanExact(a, i, t) ==
    IF i = 0 THEN NoEntry
    ELSE IF a[i].ts = t THEN a[i]
    ELSE ScanExact(a, i - 1, t)

RECURSIVE ScanAtOrBefore(_, _, _)
ScanAtOrBefore(a, i, t) ==
    IF i = 0 THEN NoEntry
    ELSE IF a[i].ts <= t THEN a[i]
    ELSE ScanAtOrBefore(a, i - 1, t)

RECURSIVE ScanOldestAtOrBefore(_, _, _)
ScanOldestAtOrBefore(a, i, t) ==
    IF i > Len(a) THEN NoEntry
    ELSE IF a[i].ts <= t THEN a[i]
    ELSE ScanOldestAtOrBefore(a, i + 1, t)

(* Mutant: the oldest entry at or before t is returned. *)
get_oldest_at_or_before(a, t) == ScanOldestAtOrBefore(a, 1, t)

(* get_at_or_before(timestamp): the newest entry not after t *)
get_at_or_before(a, t) == ScanAtOrBefore(a, Len(a), t)

(* Mutant: the strict lookup falls back to the nearest earlier entry. *)
get_with_fallback(a, t) == ScanAtOrBefore(a, Len(a), t)

(* get(timestamp): the entry at exactly t *)
get(a, t) == ScanExact(a, Len(a), t)

LookupGet(t) ==
    /\ capacity > 0
    /\ lastCall' = [op |-> "get", t |-> t, data |-> None,
                    result |-> get(archive, t)]
    /\ UNCHANGED <<capacity, archive, recorded, archiveStatus>>

LookupGetAtOrBefore(t) ==
    /\ capacity > 0
    /\ lastCall' = [op |-> "get_at_or_before", t |-> t, data |-> None,
                    result |-> get_at_or_before(archive, t)]
    /\ UNCHANGED <<capacity, archive, recorded, archiveStatus>>


(* ============================ merge queue ============================= *)

QueueIdle ==
    /\ openAnnounces = <<>>
    /\ completed = <<>>
    /\ lastAnnounced = None

(* Mutant: the newest announce is put in front of the older ones. *)
announce_in_front(t) ==
    /\ t > lastAnnounced
    /\ openAnnounces' = <<t>> \o openAnnounces
    /\ lastAnnounced' = t
    /\ UNCHANGED completed

(* Producer::announce: a result for capture time t is in flight. Capture   *)
(* times come from one monotonic clock.                                    *)
announce(t) ==
    /\ t > lastAnnounced
    /\ openAnnounces' = Append(openAnnounces, t)
    /\ lastAnnounced' = t
    /\ UNCHANGED completed

(* Producer::finalize: the open announce of t is completed with value v *)
finalize(t, v) ==
    /\ \E i \in 1..Len(openAnnounces) :
          /\ openAnnounces[i] = t
          /\ openAnnounces' = SubSeq(openAnnounces, 1, i - 1)
                                \o SubSeq(openAnnounces, i + 1, Len(openAnnounces))
    /\ completed' = Append(completed, [ts |-> t, data |-> v])
    /\ UNCHANGED lastAnnounced

(* earliest_open_timestamp: Update::first_timestamp_of_non_finalized_database *)
earliest_open_timestamp(open) == IF open = <<>> THEN None ELSE Head(open)


(* ========== composed system: producers, owner and Aggregate ========== *)

Registered == 1..producers

MergeIdle ==
    /\ producers = 0
    /\ inFlight = [p \in Producers |-> <<>>]
    /\ items = [p \in Producers |-> <<>>]
    /\ newest = [p \in Producers |-> None]
    /\ finalizes = [p \in Producers |-> 0]
    /\ now = 0
    /\ databases = <<>>
    /\ reported = None
    /\ ownerPc = "tick"
    /\ ownerStatus = "ok"

(* number of announces so far, of all producers *)
RECURSIVE AnnouncesOf(_)
AnnouncesOf(p) ==
    IF p = 0 THEN 0
    ELSE finalizes[p] + Len(inFlight[p]) + AnnouncesOf(p - 1)

Announces == AnnouncesOf(producers)

(* Producer::announce of a registered producer: the capture time is a    *)
(* timestamp the owner already originated, not before the producer's      *)
(* previous one.                                                           *)
Producer_announce(p, t) ==
    /\ p \in Registered
    /\ t \in 1..now
    /\ t >= newest[p]
    /\ Announces < MaxAnnounces
    /\ inFlight' = [inFlight EXCEPT ![p] = Append(@, t)]
    /\ newest' = [newest EXCEPT ![p] = t]
    /\ UNCHANGED <<producers, items, finalizes, now, databases, reported,
                   ownerPc, ownerStatus>>

(* Producer::finalize of a registered producer: the first open announce   *)
(* of t is completed; its data is the number of the finalize.             *)
Producer_finalize(p, t) ==
    /\ p \in Registered
    /\ \E i \in 1..Len(inFlight[p]) :
          /\ inFlight[p][i] = t
          /\ \A j \in 1..(i - 1) : inFlight[p][j] # t
          /\ inFlight' = [inFlight EXCEPT
                ![p] = SubSeq(@, 1, i - 1) \o SubSeq(@, i + 1, Len(@))]
    /\ items' = [items EXCEPT
          ![p] = Append(@, [ts |-> t, data |-> finalizes[p] + 1])]
    /\ finalizes' = [finalizes EXCEPT ![p] = @ + 1]
    /\ UNCHANGED <<producers, newest, now, databases, reported, ownerPc,
                   ownerStatus>>

(* Consumer::consume of every registered producer: the Updates struct,    *)
(* one Update {items, first_timestamp_of_non_finalized_database} each     *)
consume ==
    [p \in Registered |->
        [items |-> items[p],
         first_timestamp_of_non_finalized_database
            |-> earliest_open_timestamp(inFlight[p])]]

(* Iterator::flatten over Option values *)
Flatten(s) == SelectSeq(s, LAMBDA x : x # None)

(* Iterator::min: None for an empty iterator *)
RECURSIVE IterMin(_)
IterMin(s) ==
    IF s = <<>> THEN None
    ELSE IF Len(s) = 1 THEN s[1]
    ELSE LET m == IterMin(Tail(s)) IN IF s[1] <= m THEN s[1] ELSE m

(* Mutant: the minimum is taken over the Options, None being the least. *)
first_timestamp_unflattened(u) ==
    IF DOMAIN u = {} THEN None
    ELSE IterMin([p \in DOMAIN u |->
                     u[p].first_timestamp_of_non_finalized_database])

(* Updates::first_timestamp_of_temporary_databases *)
first_timestamp_of_temporary_databases(u) ==
    IF DOMAIN u = {} THEN None
    ELSE IterMin(Flatten([p \in DOMAIN u |->
                             u[p].first_timestamp_of_non_finalized_database]))

(* Databases::default(): an empty list for every perception instance *)
DefaultDatabases == [p \in Registered |-> <<>>]

(* Mutant: an item without an entry is skipped (if let Some(..) = get_mut). *)
RECURSIVE PushItemsSkippingMissing(_, _, _)
PushItemsSkippingMissing(its, p, dbs) ==
    IF its = <<>> THEN [dbs |-> dbs, panicked |-> FALSE]
    ELSE IF Head(its).ts \notin DOMAIN dbs
         THEN PushItemsSkippingMissing(Tail(its), p, dbs)
         ELSE PushItemsSkippingMissing(Tail(its), p,
                 [dbs EXCEPT ![Head(its).ts][p] = Append(@, Head(its).data)])

(* Mutant: an item without an entry creates it (entry(..).or_default()). *)
RECURSIVE PushItemsCreatingEntries(_, _, _)
PushItemsCreatingEntries(its, p, dbs) ==
    IF its = <<>> THEN [dbs |-> dbs, panicked |-> FALSE]
    ELSE LET t == Head(its).ts
             full == [k \in DOMAIN dbs \cup {t} |->
                         IF k \in DOMAIN dbs THEN dbs[k] ELSE DefaultDatabases]
         IN  PushItemsCreatingEntries(Tail(its), p,
                 [full EXCEPT ![t][p] = Append(@, Head(its).data)])

(* Mutant: the item is put in front of the list (insert(0, ..)). *)
RECURSIVE PushItemsInFront(_, _, _)
PushItemsInFront(its, p, dbs) ==
    IF its = <<>> THEN [dbs |-> dbs, panicked |-> FALSE]
    ELSE IF Head(its).ts \notin DOMAIN dbs
         THEN [dbs |-> dbs, panicked |-> TRUE]
         ELSE PushItemsInFront(Tail(its), p,
                 [dbs EXCEPT ![Head(its).ts][p] = <<Head(its).data>> \o @])

(* Mutant: the item is pushed into the newest entry. *)
RECURSIVE PushItemsIntoNewest(_, _, _)
PushItemsIntoNewest(its, p, dbs) ==
    IF its = <<>> THEN [dbs |-> dbs, panicked |-> FALSE]
    ELSE IF Head(its).ts \notin DOMAIN dbs
         THEN [dbs |-> dbs, panicked |-> TRUE]
         ELSE PushItemsIntoNewest(Tail(its), p,
                 [dbs EXCEPT ![CHOOSE k \in DOMAIN dbs :
                                  \A j \in DOMAIN dbs : j <= k][p]
                                  = Append(@, Head(its).data)])

(* push_to_databases, the loop of one perception instance:                *)
(* databases.get_mut(&timestamp).unwrap().field.push(data) per item; the  *)
(* unwrap of a missing entry panics, the items before it are pushed.      *)
RECURSIVE PushItems(_, _, _)
PushItems(its, p, dbs) ==
    IF its = <<>> THEN [dbs |-> dbs, panicked |-> FALSE]
    ELSE IF Head(its).ts \notin DOMAIN dbs
         THEN [dbs |-> dbs, panicked |-> TRUE]
         ELSE PushItems(Tail(its), p,
                 [dbs EXCEPT ![Head(its).ts][p] = Append(@, Head(its).data)])

(* Updates::push_to_databases: the loops of the instances p..n in order *)
RECURSIVE push_to_databases(_, _, _)
push_to_databases(u, p, dbs) ==
    IF p \notin DOMAIN u THEN [dbs |-> dbs, panicked |-> FALSE]
    ELSE LET r == PushItems(u[p].items, p, dbs)
         IN  IF r.panicked THEN r ELSE push_to_databases(u, p + 1, r.dbs)

(* The owner originates the timestamp of its cycle, creates the Aggregate *)
(* entry of it and records its state in its Historic Archive.             *)
OwnerTick ==
    /\ ownerStatus = "ok"
    /\ ownerPc = "tick"
    /\ now < MaxTick
    /\ now' = now + 1
    /\ databases' = [k \in DOMAIN databases \cup {now + 1} |->
                        IF k \in DOMAIN databases THEN databases[k]
                        ELSE DefaultDatabases]
    /\ record(now + 1, 0)
    /\ ownerPc' = "drain"
    /\ UNCHANGED <<producers, inFlight, items, newest, finalizes, reported,
                   ownerStatus>>

(* drain_into(aggregate): every producer's queue is consumed and the      *)
(* Updates are pushed into the Aggregate; the earliest pending timestamp  *)
(* of the same Updates is what the owner prunes by.                        *)
OwnerDrain ==
    /\ ownerStatus = "ok"
    /\ ownerPc = "drain"
    /\ LET u == consume
           r == push_to_databases(u, 1, databases)
       IN  /\ items' = [p \in Producers |-> <<>>]
           /\ reported' = first_timestamp_of_temporary_databases(u)
           /\ databases' = r.dbs
           /\ IF r.panicked
              THEN ownerStatus' = "missing_entry" /\ UNCHANGED ownerPc
              ELSE ownerPc' = "prune" /\ UNCHANGED ownerStatus
    /\ UNCHANGED <<producers, inFlight, newest, finalizes, now>>

(* Mutant: the entry at the earliest pending timestamp is pruned too. *)
PruneBoundExclusive == IF reported = None THEN now ELSE reported + 1

(* Mutant: the prune keeps every entry. *)
PruneBoundOfOldestEntry ==
    CHOOSE k \in DOMAIN databases : \A j \in DOMAIN databases : k <= j

(* The entries before this timestamp are resolved: the reported earliest  *)
(* pending timestamp, the owner's own timestamp when none is pending.      *)
PruneBound == IF reported = None THEN now ELSE reported

(* The owner prunes the resolved Aggregate entries. *)
OwnerPrune ==
    /\ ownerStatus = "ok"
    /\ ownerPc = "prune"
    /\ databases' = [k \in {j \in DOMAIN databases : j >= PruneBound} |->
                        databases[k]]
    /\ ownerPc' = "tick"
    /\ UNCHANGED <<producers, inFlight, items, newest, finalizes, now,
                   reported, ownerStatus>>

(* ============================ cycler thread =========================== *)

(* the content of a slot of the cycler's own buffer: the number of the    *)
(* cycle whose first module wrote its outputs last, and of the cycle      *)
(* whose remaining modules wrote theirs last (0: the default Database)    *)
(* it is kept as one number, first * CycleBase + rest                     *)
CycleBase == MaxCycles + 1

Database(first, rest) == first * CycleBase + rest

FirstOf(database) == database \div CycleBase

RestOf(database) == database % CycleBase

DefaultDatabase == Database(0, 0)

(* the generator emits the same start and cycle for both kinds *)
CyclerKinds == {"RealTime", "Perception"}

(* the cycler modules of a robot, their types and their instances *)
cycler_modules_to_cycler_types ==
    [control |-> "RealTime", vision |-> "Perception", audio |-> "Perception"]

modules_to_instances ==
    [control |-> {"Control"}, vision |-> {"VisionTop", "VisionBottom"},
     audio |-> {"Audio"}]

(* get_own_producer_field: the fields of the Cycler struct that hold a    *)
(* producer end                                                           *)
get_own_producer_field(k) ==
    IF k = "Perception" THEN {"own_producer"} ELSE {}

(* get_other_cyclers: a perception cycler gets a Reader for every         *)
(* instance of every real-time module, a real-time cycler a Consumer for  *)
(* every instance of every perception module                              *)
get_other_cyclers(k) ==
    IF k = "Perception"
    THEN UNION {{<<"Reader", i>> : i \in modules_to_instances[m]} :
                  m \in {n \in DOMAIN cycler_modules_to_cycler_types :
                           cycler_modules_to_cycler_types[n] = "RealTime"}}
    ELSE UNION {{<<"Consumer", i>> : i \in modules_to_instances[m]} :
                  m \in {n \in DOMAIN cycler_modules_to_cycler_types :
                           cycler_modules_to_cycler_types[n] = "Perception"}}

CyclerIdle ==
    /\ cyclerPc = "idle"
    /\ cancelled = FALSE
    /\ threadResult = "running"
    /\ cycles = 0
    /\ trace = <<>>
    /\ kind = "Perception"
    /\ configuration = 0
    /\ configFirst = None
    /\ configRest = None

(* start: the thread of the cycler is spawned *)
CyclerStart ==
    /\ cyclerPc = "idle"
    /\ cyclerPc' = "boundary"
    /\ UNCHANGED <<cancelled, threadResult, cycles, trace>>
    /\ UNCHANGED <<kind, configuration, configFirst, configRest>>

(* Mutant: the loop starts the next cycle without looking at the flag. *)
CyclerBoundaryUnchecked ==
    /\ cyclerPc = "boundary"
    /\ cycles < MaxCycles
    /\ cyclerPc' = "open"
    /\ cycles' = cycles + 1
    /\ trace' = <<>>
    /\ UNCHANGED <<cancelled, threadResult>>
    /\ UNCHANGED <<kind, configuration, configFirst, configRest>>

(* while !keep_running.is_cancelled(): the check at the cycle boundary;   *)
(* the loop left, the thread returns Ok(())                                *)
CyclerBoundary ==
    /\ cyclerPc = "boundary"
    /\ IF cancelled
       THEN /\ cyclerPc' = "stopped"
            /\ threadResult' = "ok"
            /\ UNCHANGED <<cycles, trace>>
       ELSE /\ cycles < MaxCycles
            /\ cyclerPc' = "open"
            /\ cycles' = cycles + 1
            /\ trace' = <<>>
            /\ UNCHANGED threadResult
    /\ UNCHANGED cancelled
    /\ UNCHANGED <<kind, configuration, configFirst, configRest>>

(* cycle: let mut own_database = self.own_writer.next() *)
CycleOpen ==
    /\ cyclerPc = "open"
    /\ WriterNext
    /\ cyclerPc' = "first"
    /\ UNCHANGED <<cancelled, threadResult, cycles, trace>>
    /\ UNCHANGED <<kind, configuration, configFirst, configRest>>

(* Mutant: the first module writes its outputs into the slot the readers  *)
(* are served from.                                                       *)
CycleFirstModuleIntoCurrent ==
    /\ cyclerPc = "first"
    /\ configFirst' = configuration
    /\ slots' = [slots EXCEPT
                   ![current] = Database(cycles, RestOf(slots[current]))]
    /\ UNCHANGED <<bufferState, nSlots, current, writing, handles,
                   published, writerStatus>>
    /\ cyclerPc' = "announce"
    /\ UNCHANGED <<cancelled, threadResult, cycles, trace>>
    /\ UNCHANGED <<kind, configuration, configRest>>

(* the block of the first module: configuration_reader.next() takes the   *)
(* snapshot the module reads, the module runs and its main outputs are    *)
(* set in own_database                                                    *)
CycleFirstModule ==
    /\ cyclerPc = "first"
    /\ configFirst' = configuration
    /\ \E s \in writing :
          WriterGuardAssign(Database(cycles, RestOf(slots[s])))
    /\ cyclerPc' = "announce"
    /\ UNCHANGED <<cancelled, threadResult, cycles, trace>>
    /\ UNCHANGED <<kind, configuration, configRest>>

(* self.own_producer.announce(): the capture time is taken from the clock *)
CycleAnnounce(t) ==
    /\ cyclerPc = "announce"
    /\ announce(t)
    /\ trace' = Append(trace, "announce")
    /\ cyclerPc' = "remaining"
    /\ UNCHANGED <<cancelled, threadResult, cycles>>
    /\ UNCHANGED <<kind, configuration, configFirst, configRest>>

(* the block of the remaining modules: configuration_reader.next() takes  *)
(* the snapshot they read, they run and their main outputs are set        *)
CycleRemainingModules ==
    /\ cyclerPc = "remaining"
    /\ configRest' = configuration
    /\ \E s \in writing :
          WriterGuardAssign(Database(FirstOf(slots[s]), cycles))
    /\ cyclerPc' = "finalize"
    /\ UNCHANGED <<cancelled, threadResult, cycles, trace>>
    /\ UNCHANGED <<kind, configuration, configFirst>>

(* Mutant: the cycle goes on without finalizing its announce. *)
CycleFinalizeSkipped ==
    /\ cyclerPc = "finalize"
    /\ cyclerPc' = "release"
    /\ UNCHANGED <<openAnnounces, completed, lastAnnounced>>
    /\ UNCHANGED <<cancelled, threadResult, cycles, trace>>
    /\ UNCHANGED <<kind, configuration, configFirst, configRest>>

(* self.own_producer.finalize(own_database.main_outputs.clone()): the     *)
(* announce of this cycle is completed with the content of the open slot  *)
CycleFinalize ==
    /\ cyclerPc = "finalize"
    /\ \E s \in writing : finalize(lastAnnounced, slots[s])
    /\ trace' = Append(trace, "finalize")
    /\ cyclerPc' = "release"
    /\ UNCHANGED <<cancelled, threadResult, cycles>>
    /\ UNCHANGED <<kind, configuration, configFirst, configRest>>

(* end of the block of cycle: own_database is dropped, the cycle is over; *)
(* the configuration guards of its blocks are long dropped                *)
CycleRelease ==
    /\ cyclerPc = "release"
    /\ WriterGuardDrop
    /\ cyclerPc' = "boundary"
    /\ configFirst' = None
    /\ configRest' = None
    /\ UNCHANGED <<cancelled, threadResult, cycles, trace>>
    /\ UNCHANGED <<kind, configuration>>

(* Mutant: the error of the cycle is returned without cancelling. *)
CycleFailWithoutCancel ==
    /\ cyclerPc \in {"first", "remaining"}
    /\ WriterGuardDrop
    /\ threadResult' = "err"
    /\ cyclerPc' = "stopped"
    /\ UNCHANGED <<cancelled, cycles, trace>>
    /\ UNCHANGED <<kind, configuration, configFirst, configRest>>

(* a module's cycle returns Err: `?` leaves cycle (own_database is        *)
(* dropped), start cancels keep_running and the thread returns the error  *)
CycleFail ==
    /\ cyclerPc \in {"first", "remaining"}
    /\ WriterGuardDrop
    /\ cancelled' = TRUE
    /\ threadResult' = "err"
    /\ cyclerPc' = "stopped"
    /\ UNCHANGED <<cycles, trace>>
    /\ UNCHANGED <<kind, configuration, configFirst, configRest>>

(* keep_running.cancel() by another thread of the process *)
CancelElsewhere ==
    /\ ~cancelled
    /\ cancelled' = TRUE
    /\ UNCHANGED <<cyclerPc, threadResult, cycles, trace>>
    /\ UNCHANGED <<kind, configuration, configFirst, configRest>>

(* the parameter storage publishes an updated configuration: the write    *)
(* slot of the configuration buffer is assigned and released              *)
ConfigurationUpdate ==
    /\ configuration < MaxConfiguration
    /\ configuration' = configuration + 1
    /\ UNCHANGED <<cyclerPc, cancelled, threadResult, cycles, trace>>
    /\ UNCHANGED <<kind, configFirst, configRest>>


(* a reader of the cycler's own buffer, as communication or another      *)
(* cycler holds one: it takes a handle over the current slot              *)
CyclerObserverNext == ReaderNext(1)

CyclerObserverDrop == ReaderGuardDrop(1)


(* ======================== simulator interface ========================= *)

(* the threads that read from the simulator interface: the cycler that    *)
(* steps the simulation (read_from_sensors), the audio and the network    *)
(* cycler, and one cycler per camera                                      *)
BarrierReaders == {"audio", "network"}

Cameras == {"top", "bottom"}

InterfaceThreads == {"control"} \cup BarrierReaders \cup Cameras

InterfaceIdle ==
    /\ ipc = [t \in InterfaceThreads |-> "idle"]
    /\ ires = [t \in InterfaceThreads |-> "running"]
    /\ keepRunningCancelled = FALSE
    /\ stepFailed = FALSE
    /\ cameraRequested = [c \in Cameras |-> FALSE]
    /\ cameraUnblocked = [c \in Cameras |-> FALSE]
    /\ simSteps = 0
    /\ arrivals = [b \in BarrierReaders |-> 0]
    /\ returns = [b \in BarrierReaders |-> 0]
    /\ completions = 0

(* where control is before, at and after a barrier *)
ControlArrives(b) == IF b = "audio" THEN "arrive_audio" ELSE "arrive_network"

ControlBlocked(b) == IF b = "audio" THEN "blocked_audio" ELSE "blocked_network"

ControlPassed(b) == IF b = "audio" THEN "arrive_network" ELSE "after_barriers"

(* start of a cycler: while !keep_running.is_cancelled() { cycle }; the   *)
(* loop left, the thread returns Ok(())                                    *)
InterfaceBoundary(t) ==
    /\ ipc[t] = "boundary"
    /\ IF keepRunningCancelled
       THEN /\ ipc' = [ipc EXCEPT ![t] = "stopped"]
            /\ ires' = [ires EXCEPT ![t] = "ok"]
       ELSE /\ ipc' = [ipc EXCEPT ![t] = "read"]
            /\ UNCHANGED ires
    /\ UNCHANGED <<keepRunningCancelled, stepFailed, cameraRequested,
                   cameraUnblocked, simSteps, arrivals, returns, completions>>

(* Mutant: the error of the cycle is returned without cancelling. *)
ThreadFailsWithoutCancel(t) ==
    /\ ipc' = [ipc EXCEPT ![t] = "stopped"]
    /\ ires' = [ires EXCEPT ![t] = "err"]
    /\ UNCHANGED keepRunningCancelled

(* cycle returned Err: start cancels keep_running and the thread returns  *)
(* the error                                                              *)
ThreadFails(t) ==
    /\ ipc' = [ipc EXCEPT ![t] = "stopped"]
    /\ ires' = [ires EXCEPT ![t] = "err"]
    /\ keepRunningCancelled' = TRUE

(* the stages of the cycle after the read: they complete, or one fails *)
InterfaceStages(t, ok) ==
    /\ ipc[t] = "stages"
    /\ IF ok
       THEN /\ ipc' = [ipc EXCEPT ![t] = "boundary"]
            /\ UNCHANGED <<ires, keepRunningCancelled>>
       ELSE ThreadFails(t)
    /\ UNCHANGED <<stepFailed, cameraRequested, cameraUnblocked, simSteps,
                   arrivals, returns, completions>>

(* Mutant: the failed step is reported without cancelling keep_running. *)
step_simulation_without_cancel(ok) ==
    /\ ipc["control"] = "read"
    /\ ok => simSteps < MaxSteps
    /\ simSteps' = simSteps + 1
    /\ stepFailed' = ~ok
    /\ UNCHANGED keepRunningCancelled
    /\ ipc' = [ipc EXCEPT !["control"] = "arrive_audio"]
    /\ UNCHANGED <<ires, cameraRequested, cameraUnblocked, arrivals, returns,
                   completions>>

(* step_simulation: Robot::step returns -1 when the simulator asks for    *)
(* termination; keep_running is cancelled before the barriers are reached *)
step_simulation(ok) ==
    /\ ipc["control"] = "read"
    /\ ok => simSteps < MaxSteps
    /\ simSteps' = simSteps + 1
    /\ stepFailed' = ~ok
    /\ keepRunningCancelled' = (keepRunningCancelled \/ ~ok)
    /\ ipc' = [ipc EXCEPT !["control"] = "arrive_audio"]
    /\ UNCHANGED <<ires, cameraRequested, cameraUnblocked, arrivals, returns,
                   completions>>

(* read_from_sensors: Barrier::wait on the barrier shared with reader b.  *)
(* The barrier is of two: the second to arrive releases both.             *)
ControlWait(b) ==
    /\ ipc["control"] = ControlArrives(b)
    /\ IF ipc[b] = "blocked"
       THEN ipc' = [ipc EXCEPT !["control"] = ControlPassed(b),
                               ![b] = "check"]
       ELSE ipc' = [ipc EXCEPT !["control"] = ControlBlocked(b)]
    /\ UNCHANGED <<ires, keepRunningCancelled, stepFailed, cameraRequested,
                   cameraUnblocked, simSteps, arrivals, returns, completions>>

(* Mutant: the reader does not wait for the simulation. *)
ReaderWaitNotBlocking(b) ==
    /\ ipc[b] = "read"
    /\ ipc' = [ipc EXCEPT ![b] = "check"]
    /\ arrivals' = [arrivals EXCEPT ![b] = @ + 1]
    /\ UNCHANGED <<ires, keepRunningCancelled, stepFailed, cameraRequested,
                   cameraUnblocked, simSteps, returns, completions>>

(* read_from_microphones, read_from_network: Barrier::wait *)
ReaderWait(b) ==
    /\ ipc[b] = "read"
    /\ IF ipc["control"] = ControlBlocked(b)
       THEN ipc' = [ipc EXCEPT !["control"] = ControlPassed(b),
                               ![b] = "check"]
       ELSE ipc' = [ipc EXCEPT ![b] = "blocked"]
    /\ arrivals' = [arrivals EXCEPT ![b] = @ + 1]
    /\ UNCHANGED <<ires, keepRunningCancelled, stepFailed, cameraRequested,
                   cameraUnblocked, simSteps, returns, completions>>

(* after the wait, and after Camera::read: if keep_running.is_cancelled() *)
(* { bail!("termination requested") }, else the data is returned          *)
ReadReturns(t) ==
    /\ ipc[t] = "check"
    /\ IF keepRunningCancelled
       THEN ThreadFails(t)
       ELSE /\ ipc' = [ipc EXCEPT ![t] = "stages"]
            /\ UNCHANGED <<ires, keepRunningCancelled>>
    /\ returns' = IF t \in BarrierReaders
                  THEN [returns EXCEPT ![t] = @ + 1]
                  ELSE returns
    /\ UNCHANGED <<stepFailed, cameraRequested, cameraUnblocked, simSteps,
                   arrivals, completions>>

(* read_from_sensors, Err arm of the match: after both barriers the reads *)
(* of both cameras are unblocked and the error is returned                *)
SensorsStepFailed ==
    /\ ipc["control"] = "after_barriers"
    /\ stepFailed
    /\ cameraUnblocked' = [c \in Cameras |-> TRUE]
    /\ ipc' = [t \in InterfaceThreads |->
                  IF t = "control" THEN "stopped"
                  ELSE IF t \in Cameras /\ ipc[t] = "reading" THEN "check"
                  ELSE ipc[t]]
    /\ ires' = [ires EXCEPT !["control"] = "err"]
    /\ keepRunningCancelled' = TRUE
    /\ completions' = completions + 1
    /\ UNCHANGED <<stepFailed, cameraRequested, simSteps, arrivals, returns>>

(* read_from_sensors, Ok arm: the sensors are read and update_cameras     *)
(* hands a new image to every camera that has a request pending; a        *)
(* failing sensor read or image update returns its error with `?`         *)
SensorsRead(ok) ==
    /\ ipc["control"] = "after_barriers"
    /\ ~stepFailed
    /\ IF ok
       THEN /\ cameraRequested' = [c \in Cameras |-> FALSE]
            /\ ipc' = [t \in InterfaceThreads |->
                          IF t = "control" THEN "stages"
                          ELSE IF t \in Cameras /\ cameraRequested[t]
                                  /\ ipc[t] = "reading" THEN "check"
                          ELSE ipc[t]]
            /\ UNCHANGED <<ires, keepRunningCancelled>>
       ELSE /\ ThreadFails("control")
            /\ UNCHANGED cameraRequested
    /\ completions' = completions + 1
    /\ UNCHANGED <<stepFailed, cameraUnblocked, simSteps, arrivals, returns>>

(* read_from_camera: the request flag is stored and Camera::read blocks   *)
(* until an image was updated or the read was unblocked                   *)
CameraRead(c) ==
    /\ ipc[c] = "read"
    /\ IF cameraUnblocked[c]
       THEN ipc' = [ipc EXCEPT ![c] = "check"]
       ELSE ipc' = [ipc EXCEPT ![c] = "reading"]
    /\ cameraRequested' = [cameraRequested EXCEPT ![c] = TRUE]
    /\ UNCHANGED <<ires, keepRunningCancelled, stepFailed, cameraUnblocked,
                   simSteps, arrivals, returns, completions>>

(* the steps of one thread *)
InterfaceThreadStep(t) ==
    \/ InterfaceBoundary(t)
    \/ \E ok \in BOOLEAN : InterfaceStages(t, ok)
    \/ t = "control" /\ \E ok \in BOOLEAN : step_simulation(ok)
    \/ t = "control" /\ \E b \in BarrierReaders : ControlWait(b)
    \/ t = "control" /\ SensorsStepFailed
    \/ t = "control" /\ \E ok \in BOOLEAN : SensorsRead(ok)
    \/ t \in BarrierReaders /\ ReaderWait(t)
    \/ t \in BarrierReaders \cup Cameras /\ ReadReturns(t)
    \/ t \in Cameras /\ CameraRead(t)


(* ========================== module execution ========================== *)

(* the modules of one cycler in their static order; every module has its  *)
(* own main outputs, fields of own_database.main_outputs of type Option   *)
Stages == 1..MaxStages

OutputsPerStage == 2

MainOutputs(i) == {<<i, k>> : k \in 1..OutputsPerStage}

Fields == UNION {MainOutputs(i) : i \in Stages}

StagesIdle ==
    /\ required = <<>>
    /\ outputs = <<>>
    /\ stagePc = 0
    /\ ran = <<>>

(* #(#required_inputs_are_some&&)*: every RequiredInput field of the      *)
(* module's cycle context is_some()                                       *)
required_inputs_are_some(i) == \A f \in required[i] : outputs[f] = "some"

(* Mutant: a skipped module leaves its main outputs as they are. *)
main_output_setters_left_out(i) == outputs

(* #(#main_output_setters_from_none)*:                                    *)
(* own_database.main_outputs.#name = None for every main output           *)
main_output_setters_from_none(i) ==
    [f \in Fields |-> IF f \in MainOutputs(i) THEN "none" ELSE outputs[f]]

(* #(#main_output_setters_from_cycle_result)*:                            *)
(* own_database.main_outputs.#name = main_outputs.#name.value             *)
main_output_setters_from_cycle_result(i, result) ==
    [f \in Fields |-> IF f \in MainOutputs(i) THEN result[f[2]]
                      ELSE outputs[f]]

(* Module::get_execution: the module runs if its required inputs are      *)
(* there, and its main outputs are taken from what cycle returned (each   *)
(* an Option) or `?` returns its error; otherwise its main outputs are    *)
(* set to None and the cycle goes on with the next module                 *)
get_execution(i) ==
    /\ stagePc = i
    /\ IF required_inputs_are_some(i)
       THEN \/ \E result \in [1..OutputsPerStage -> {"none", "some"}] :
                  /\ outputs' = main_output_setters_from_cycle_result(i, result)
                  /\ ran' = [ran EXCEPT ![i] = "ran"]
                  /\ stagePc' = i + 1
            \/ /\ ran' = [ran EXCEPT ![i] = "failed"]
               /\ stagePc' = 0
               /\ UNCHANGED outputs
       ELSE /\ outputs' = main_output_setters_from_none(i)
            /\ ran' = [ran EXCEPT ![i] = "skipped"]
            /\ stagePc' = i + 1
    /\ UNCHANGED required


(* ========================= parameter storage ========================== *)

RequestKinds == {"UpdateParameter", "LoadFromDisk", "StoreToDisk"}

NoRequest == [kind |-> "none", id |-> 0]

StorageIdle ==
    /\ storagePc = "idle"
    /\ parameters = 0
    /\ toPublish = 0
    /\ disk = 0
    /\ senders = 0
    /\ requestQueue = <<>>
    /\ request = NoRequest
    /\ outcome = "none"
    /\ nextId = 1
    /\ responses = <<>>
    /\ notifications = 0
    /\ storageTrace = <<>>

(* { let mut slot = parameters_writer.next(); *slot = value; }: a free    *)
(* slot is taken, assigned and released, which makes it current. Without  *)
(* a free slot next() is fatal to the task.                               *)
WriteSlot(value, after) ==
    IF FreeSlots = {}
    THEN /\ writerStatus' = "all_busy"
         /\ storagePc' = "panicked"
         /\ UNCHANGED <<bufferState, nSlots, slots, current, writing,
                        handles, published>>
    ELSE /\ \E s \in FreeSlots :
              /\ slots' = [slots EXCEPT ![s] = value]
              /\ current' = s
         /\ published' = value
         /\ storagePc' = after
         /\ UNCHANGED <<bufferState, nSlots, writing, handles, writerStatus>>

(* storage: the working copy is a clone of what parameters_writer.next()  *)
(* hands out, the content of the slot the writer is given; the handle is  *)
(* released again at the end of the statement                             *)
StorageStart ==
    /\ storagePc = "start"
    /\ IF FreeSlots = {}
       THEN /\ writerStatus' = "all_busy"
            /\ storagePc' = "panicked"
            /\ UNCHANGED <<bufferState, nSlots, slots, current, writing,
                           handles, published, parameters>>
       ELSE /\ \E s \in FreeSlots :
                 /\ current' = s
                 /\ published' = slots[s]
                 /\ parameters' = slots[s]
            /\ storagePc' = "recv"
            /\ UNCHANGED <<bufferState, nSlots, slots, writing, handles,
                           writerStatus>>
    /\ UNCHANGED <<toPublish, disk, senders, requestQueue, request, outcome,
                   nextId, responses, notifications, storageTrace>>

(* request_sender.send(request).await by a holder of a sender: the        *)
(* channel is bounded; the request carries the id its client chose        *)
SendRequest(k) ==
    /\ senders > 0
    /\ Len(requestQueue) < MaxQueued
    /\ nextId <= MaxRequests
    /\ requestQueue' = Append(requestQueue, [kind |-> k, id |-> nextId])
    /\ nextId' = nextId + 1
    /\ UNCHANGED <<storagePc, parameters, toPublish, disk, senders, request,
                   outcome, responses, notifications, storageTrace>>

(* drop(request_sender) *)
DropSender ==
    /\ senders > 0
    /\ senders' = senders - 1
    /\ UNCHANGED <<storagePc, parameters, toPublish, disk, requestQueue,
                   request, outcome, nextId, responses, notifications,
                   storageTrace>>

(* Mutant: recv yields None as soon as the channel is empty. *)
ReceiveClosedWhenEmpty ==
    /\ storagePc = "recv"
    /\ IF requestQueue # <<>>
       THEN /\ request' = Head(requestQueue)
            /\ requestQueue' = Tail(requestQueue)
            /\ storagePc' = "handle"
       ELSE /\ storagePc' = "done"
            /\ UNCHANGED <<request, requestQueue>>
    /\ storageTrace' = <<>>
    /\ UNCHANGED <<parameters, toPublish, disk, senders, outcome, nextId,
                   responses, notifications>>

(* while let Some(request) = request_receiver.recv().await: the oldest    *)
(* queued request; None, which ends the task, once the channel is empty   *)
(* and every sender is dropped; otherwise the task waits                  *)
Receive ==
    /\ storagePc = "recv"
    /\ requestQueue # <<>> \/ senders = 0
    /\ IF requestQueue # <<>>
       THEN /\ request' = Head(requestQueue)
            /\ requestQueue' = Tail(requestQueue)
            /\ storagePc' = "handle"
       ELSE /\ storagePc' = "done"
            /\ UNCHANGED <<request, requestQueue>>
    /\ storageTrace' = <<>>
    /\ UNCHANGED <<parameters, toPublish, disk, senders, outcome, nextId,
                   responses, notifications>>

(* handle_request, UpdateParameter: parameters.deserialize_path(&path,    *)
(* data) on the working copy; the value an update writes is numbered by   *)
(* the request. On an error the response is Err and nothing is published. *)
HandleUpdateParameter(ok) ==
    /\ storagePc = "handle"
    /\ request.kind = "UpdateParameter"
    /\ IF ok
       THEN /\ parameters' = request.id
            /\ toPublish' = request.id
            /\ storagePc' = "publish"
            /\ UNCHANGED outcome
       ELSE /\ outcome' = "err"
            /\ storagePc' = "respond"
            /\ UNCHANGED <<parameters, toPublish>>
    /\ UNCHANGED <<disk, senders, requestQueue, request, nextId, responses,
                   notifications, storageTrace>>

(* handle_request, LoadFromDisk: deserialize(..).await into a local       *)
(* binding that shadows the working copy; the loaded value is published   *)
HandleLoadFromDisk(ok) ==
    /\ storagePc = "handle"
    /\ request.kind = "LoadFromDisk"
    /\ IF ok
       THEN /\ toPublish' = disk
            /\ storagePc' = "publish"
            /\ UNCHANGED outcome
       ELSE /\ outcome' = "err"
            /\ storagePc' = "respond"
            /\ UNCHANGED toPublish
    /\ UNCHANGED <<parameters, disk, senders, requestQueue, request, nextId,
                   responses, notifications, storageTrace>>

(* Mutant: a store publishes the working copy like an update does. *)
HandleStoreToDiskPublishing(ok) ==
    /\ storagePc = "handle"
    /\ request.kind = "StoreToDisk"
    /\ IF ok
       THEN /\ disk' = parameters
            /\ toPublish' = parameters
            /\ storagePc' = "publish"
            /\ UNCHANGED outcome
       ELSE /\ outcome' = "err"
            /\ storagePc' = "respond"
            /\ UNCHANGED <<disk, toPublish>>
    /\ UNCHANGED <<parameters, senders, requestQueue, request, nextId,
                   responses, notifications, storageTrace>>

(* handle_request, StoreToDisk: serialize(parameters, ..).await writes    *)
(* the working copy to the directory                                      *)
HandleStoreToDisk(ok) ==
    /\ storagePc = "handle"
    /\ request.kind = "StoreToDisk"
    /\ IF ok
       THEN disk' = parameters /\ outcome' = "ok"
       ELSE outcome' = "err" /\ UNCHANGED disk
    /\ storagePc' = "respond"
    /\ UNCHANGED <<parameters, toPublish, senders, requestQueue, request,
                   nextId, responses, notifications, storageTrace>>

(* Mutant: the notification goes out and the new value was not written. *)
PublishParametersSkipped ==
    /\ storagePc = "publish"
    /\ storagePc' = "notify"
    /\ UNCHANGED bufferVars
    /\ storageTrace' = Append(storageTrace, "publish")
    /\ UNCHANGED <<parameters, toPublish, disk, senders, requestQueue,
                   request, outcome, nextId, responses, notifications>>

(* { let mut slot = parameters_writer.next(); *slot = ..; } *)
PublishParameters ==
    /\ storagePc = "publish"
    /\ WriteSlot(toPublish, "notify")
    /\ storageTrace' = Append(storageTrace, "publish")
    /\ UNCHANGED <<parameters, toPublish, disk, senders, requestQueue,
                   request, outcome, nextId, responses, notifications>>

(* parameters_changed.notify_one() *)
NotifyParametersChanged ==
    /\ storagePc = "notify"
    /\ notifications' = notifications + 1
    /\ storageTrace' = Append(storageTrace, "notify")
    /\ outcome' = "ok"
    /\ storagePc' = "respond"
    /\ UNCHANGED <<parameters, toPublish, disk, senders, requestQueue,
                   request, nextId, responses>>

(* respond: client.response_sender.send(..).await.expect(..): the         *)
(* response carries the kind and the id of the request; a client whose    *)
(* receiver is gone is fatal to the task                                  *)
respond(delivered) ==
    /\ storagePc = "respond"
    /\ IF delivered
       THEN /\ responses' = Append(responses, [kind |-> request.kind,
                                                id |-> request.id,
                                                result |-> outcome])
            /\ storagePc' = "recv"
       ELSE /\ storagePc' = "panicked"
            /\ UNCHANGED responses
    /\ UNCHANGED <<parameters, toPublish, disk, senders, requestQueue,
                   request, outcome, nextId, notifications, storageTrace>>

(* a reader of the parameters, as every cycler holds one *)
ParametersReaderNext == ReaderNext(1)

ParametersReaderDrop == ReaderGuardDrop(1)

(* the steps of the storage task *)
StorageTaskStep ==
    \/ StorageStart
    \/ Receive /\ UNCHANGED bufferVars
    \/ \E ok \in BOOLEAN : HandleUpdateParameter(ok) /\ UNCHANGED bufferVars
    \/ \E ok \in BOOLEAN : HandleLoadFromDisk(ok) /\ UNCHANGED bufferVars
    \/ \E ok \in BOOLEAN : HandleStoreToDisk(ok) /\ UNCHANGED bufferVars
    \/ PublishParameters
    \/ NotifyParametersChanged /\ UNCHANGED bufferVars
    \/ \E delivered \in BOOLEAN : respond(delivered) /\ UNCHANGED bufferVars


(* ========================== struct hierarchy ========================== *)

(* the names and the data types the paths of the modules are made of *)
SegmentNames == {"a", "b"}

DataTypes == {"f32", "Ball"}

(* the text of a path segment, character by character: a name, or a name  *)
(* followed by `?`                                                         *)
SegmentTexts ==
    {<<n>> : n \in SegmentNames} \cup {<<n, "?">> : n \in SegmentNames}

(* the paths of at most MaxPathLen segments *)
Paths == UNION {[1..n -> SegmentTexts] : n \in 1..MaxPathLen}

(* PathSegment::from: a leading `$` marks a variable, a trailing `?` an    *)
(* optional segment; the name is the text between them                     *)
PathSegment_from(segment) ==
    LET is_variable == segment # <<>> /\ Head(segment) = "$"
        start_index == IF is_variable THEN 1 ELSE 0
        is_optional == segment # <<>> /\ segment[Len(segment)] = "?"
        end_index == IF is_optional THEN Len(segment) - 1 ELSE Len(segment)
    IN  [name |-> SubSeq(segment, start_index + 1, end_index),
         is_optional |-> is_optional,
         is_variable |-> is_variable]

(* the segments of a path *)
SegmentsOf(path) == [i \in 1..Len(path) |-> PathSegment_from(path[i])]

(* enum InsertionRule *)
BeginStruct == <<"BeginStruct">>

BeginOptional == <<"BeginOptional">>

InsertField(name) == <<"InsertField", name>>

AppendDataType(data_type) == <<"AppendDataType", data_type>>

(* Mutant: the optional is begun before the field is inserted. *)
rules_of_segment_optional_first(segment) ==
    IF segment.is_optional
    THEN <<BeginStruct, BeginOptional, InsertField(segment.name)>>
    ELSE <<BeginStruct, InsertField(segment.name)>>

(* path_into_insertion_rules, the closure mapped over the segments *)
rules_of_segment(segment) ==
    IF segment.is_optional
    THEN <<BeginStruct, InsertField(segment.name), BeginOptional>>
    ELSE <<BeginStruct, InsertField(segment.name)>>

(* .flatten() over the rules of the segments *)
RECURSIVE FlattenRules(_)
FlattenRules(segments) ==
    IF segments = <<>> THEN <<>>
    ELSE rules_of_segment(Head(segments)) \o FlattenRules(Tail(segments))

(* path_into_insertion_rules: .chain(once(AppendDataType)) *)
path_into_insertion_rules(path, data_type) ==
    FlattenRules(path) \o <<AppendDataType(data_type)>>

(* enum StructHierarchy *)
Struct(fields) == [kind |-> "Struct", fields |-> fields]

(* Mutant: the content of an optional segment is not wrapped. *)
OptionalUnwrapped(child) == child

Optional(child) == [kind |-> "Optional", child |-> child]

Field(data_type) == [kind |-> "Field", data_type |-> data_type]

(* impl Default for StructHierarchy: a struct without fields *)
DefaultHierarchy == Struct(<<>>)

(* the outcome of an insert: Ok or Err, and the hierarchy it leaves *)
Inserted(ok, hierarchy_after) == [ok |-> ok, hierarchy |-> hierarchy_after]

(* StructHierarchy::insert. fields.entry(name).or_default() creates the   *)
(* field before the rest is inserted into it, so it stays when the rest   *)
(* fails; BeginOptional replaces self only after the child was built.     *)
RECURSIVE insert(_, _)
insert(self, insertion_rules) ==
    IF insertion_rules = <<>> THEN Inserted(TRUE, self)
    ELSE
    LET first_rule == Head(insertion_rules)
        rest == Tail(insertion_rules)
    IN
    CASE self.kind = "Struct" ->
           (CASE first_rule[1] = "InsertField" ->
                   LET name == first_rule[2]
                       entry == IF name \in DOMAIN self.fields
                                THEN self.fields[name]
                                ELSE DefaultHierarchy
                       inner == insert(entry, rest)
                   IN  Inserted(inner.ok,
                                Struct([n \in DOMAIN self.fields \cup {name} |->
                                          IF n = name THEN inner.hierarchy
                                          ELSE self.fields[n]]))
              [] first_rule[1] = "BeginOptional" ->
                   IF DOMAIN self.fields # {} THEN Inserted(FALSE, self)
                   ELSE LET child == insert(DefaultHierarchy, rest)
                        IN  IF child.ok
                            THEN Inserted(TRUE, Optional(child.hierarchy))
                            ELSE Inserted(FALSE, self)
              [] first_rule[1] = "BeginStruct" -> insert(self, rest)
              [] first_rule[1] = "AppendDataType" ->
                   IF DOMAIN self.fields # {} THEN Inserted(FALSE, self)
                   ELSE Inserted(TRUE, Field(first_rule[2])))
      [] self.kind = "Optional" ->
           (CASE first_rule[1] = "InsertField" -> Inserted(FALSE, self)
              [] first_rule[1] = "BeginOptional" -> insert(self, rest)
              [] first_rule[1] = "BeginStruct" -> Inserted(FALSE, self)
              [] first_rule[1] = "AppendDataType" -> Inserted(FALSE, self))
      [] self.kind = "Field" ->
           (CASE first_rule[1] = "InsertField" -> Inserted(TRUE, self)
              [] first_rule[1] = "BeginOptional" -> Inserted(TRUE, self)
              [] first_rule[1] = "BeginStruct" -> Inserted(TRUE, self)
              [] first_rule[1] = "AppendDataType" ->
                   IF self.data_type # first_rule[2]
                   THEN Inserted(FALSE, self)
                   ELSE Inserted(TRUE, self))

StructsIdle ==
    /\ hierarchy = DefaultHierarchy
    /\ insertedPath = <<>>
    /\ insertedType = "none"
    /\ insertionRules = <<>>
    /\ insertResult = "idle"
    /\ contextPc = "idle"

(* Structs::try_from_crates_directory: the fields of new_context, then   *)
(* those of cycle_context, here one path field in each; the insertion    *)
(* rules of the expanded path are inserted into the hierarchy and an     *)
(* error ends the analysis                                                *)
InsertPath(path, data_type) ==
    /\ insertResult \in {"none", "ok"}
    /\ contextPc \in {"new_context", "cycle_context"}
    /\ LET path_segments == SegmentsOf(path)
           insertion_rules == path_into_insertion_rules(path_segments, data_type)
           inserted == insert(hierarchy, insertion_rules)
       IN  /\ \A i \in 1..Len(path_segments) : ~path_segments[i].is_variable
           /\ insertionRules' = insertion_rules
           /\ hierarchy' = inserted.hierarchy
           /\ insertResult' = IF inserted.ok THEN "ok" ELSE "err"
    /\ insertedPath' = path
    /\ insertedType' = data_type
    /\ contextPc' = IF contextPc = "new_context" THEN "cycle_context"
                    ELSE "done"


(* ========================== specifications ============================ *)

InitBuffer ==
    /\ StructsIdle
    /\ StorageIdle
    /\ StagesIdle
    /\ InterfaceIdle
    /\ BufferIdle /\ ArchiveIdle /\ QueueIdle /\ MergeIdle /\ CyclerIdle

NextBuffer ==
    \/ \E n \in 1..MaxSlots : \E init \in [1..n -> Values] :
          multiple_buffer_with_slots(n, init) /\ UNCHANGED <<archiveVars, queueVars, mergeVars, cyclerVars, interfaceVars, stageVars, storageVars, structVars>>
    \/ BufferWithoutSlots /\ UNCHANGED <<archiveVars, queueVars, mergeVars, cyclerVars, interfaceVars, stageVars, storageVars, structVars>>
    \/ WriterNext /\ UNCHANGED <<archiveVars, queueVars, mergeVars, cyclerVars, interfaceVars, stageVars, storageVars, structVars>>
    \/ \E v \in Values : WriterGuardAssign(v) /\ UNCHANGED <<archiveVars, queueVars, mergeVars, cyclerVars, interfaceVars, stageVars, storageVars, structVars>>
    \/ WriterGuardDrop /\ UNCHANGED <<archiveVars, queueVars, mergeVars, cyclerVars, interfaceVars, stageVars, storageVars, structVars>>
    \/ \E r \in Readers : ReaderNext(r) /\ UNCHANGED <<archiveVars, queueVars, mergeVars, cyclerVars, interfaceVars, stageVars, storageVars, structVars>>
    \/ \E r \in Readers : ReaderGuardDrop(r) /\ UNCHANGED <<archiveVars, queueVars, mergeVars, cyclerVars, interfaceVars, stageVars, storageVars, structVars>>

SpecBuffer == InitBuffer /\ [][NextBuffer]_vars

InitArchive ==
    /\ StructsIdle
    /\ StorageIdle
    /\ StagesIdle
    /\ InterfaceIdle
    /\ BufferIdle
    /\ QueueIdle
    /\ MergeIdle
    /\ CyclerIdle
    /\ capacity \in 1..MaxCapacity
    /\ archive = <<>>
    /\ recorded = <<>>
    /\ archiveStatus = "ok"
    /\ lastCall = NoCall

NextArchive ==
    \/ \E t \in Times, v \in Data : record(t, v) /\ UNCHANGED <<bufferVars, queueVars, mergeVars, cyclerVars, interfaceVars, stageVars, storageVars, structVars>>
    \/ \E t \in Times : LookupGet(t) /\ UNCHANGED <<bufferVars, queueVars, mergeVars, cyclerVars, interfaceVars, stageVars, storageVars, structVars>>
    \/ \E t \in Times : LookupGetAtOrBefore(t) /\ UNCHANGED <<bufferVars, queueVars, mergeVars, cyclerVars, interfaceVars, stageVars, storageVars, structVars>>

SpecArchive == InitArchive /\ [][NextArchive]_vars

InitQueue ==
    /\ StructsIdle
    /\ StorageIdle
    /\ StagesIdle
    /\ InterfaceIdle
    /\ BufferIdle /\ ArchiveIdle /\ QueueIdle /\ MergeIdle /\ CyclerIdle

NextQueue ==
    \/ \E t \in Stamps : announce(t) /\ UNCHANGED <<bufferVars, archiveVars, mergeVars, cyclerVars, interfaceVars, stageVars, storageVars, structVars>>
    \/ \E t \in Stamps, v \in Data : finalize(t, v) /\ UNCHANGED <<bufferVars, archiveVars, mergeVars, cyclerVars, interfaceVars, stageVars, storageVars, structVars>>

SpecQueue == InitQueue /\ [][NextQueue]_vars


InitMerge ==
    /\ StructsIdle
    /\ StorageIdle
    /\ StagesIdle
    /\ InterfaceIdle
    /\ BufferIdle
    /\ QueueIdle
    /\ CyclerIdle
    /\ producers \in 0..MaxProducers
    /\ inFlight = [p \in Producers |-> <<>>]
    /\ items = [p \in Producers |-> <<>>]
    /\ newest = [p \in Producers |-> None]
    /\ finalizes = [p \in Producers |-> 0]
    /\ now = 0
    /\ databases = <<>>
    /\ reported = None
    /\ ownerPc = "tick"
    /\ ownerStatus = "ok"
    /\ capacity \in 1..MaxCapacity
    /\ archive = <<>>
    /\ recorded = <<>>
    /\ archiveStatus = "ok"
    /\ lastCall = NoCall

NextMerge ==
    \/ \E p \in Producers, t \in 1..MaxTick :
          Producer_announce(p, t) /\ UNCHANGED <<bufferVars, archiveVars, queueVars, cyclerVars, interfaceVars, stageVars, storageVars, structVars>>
    \/ \E p \in Producers, t \in 1..MaxTick :
          Producer_finalize(p, t) /\ UNCHANGED <<bufferVars, archiveVars, queueVars, cyclerVars, interfaceVars, stageVars, storageVars, structVars>>
    \/ OwnerTick /\ UNCHANGED <<bufferVars, queueVars, cyclerVars, interfaceVars, stageVars, storageVars, structVars>>
    \/ OwnerDrain /\ UNCHANGED <<bufferVars, archiveVars, queueVars, cyclerVars, interfaceVars, stageVars, storageVars, structVars>>
    \/ OwnerPrune /\ UNCHANGED <<bufferVars, archiveVars, queueVars, cyclerVars, interfaceVars, stageVars, storageVars, structVars>>

SpecMerge == InitMerge /\ [][NextMerge]_vars


InitCycler ==
    /\ StructsIdle
    /\ StorageIdle
    /\ StagesIdle
    /\ InterfaceIdle
    /\ ArchiveIdle
    /\ QueueIdle
    /\ MergeIdle
    /\ cyclerPc = "idle"
    /\ cancelled = FALSE
    /\ threadResult = "running"
    /\ cycles = 0
    /\ trace = <<>>
    /\ kind \in CyclerKinds
    /\ configuration = 0
    /\ configFirst = None
    /\ configRest = None
    /\ bufferState = "ready"
    /\ nSlots \in 2..MaxSlots
    /\ slots = [i \in 1..nSlots |-> DefaultDatabase]
    /\ current = 1
    /\ writing = {}
    /\ handles = [r \in Readers |-> NoHandle]
    /\ published = DefaultDatabase
    /\ writerStatus = "ok"

NextCycler ==
    \/ CyclerStart /\ UNCHANGED <<bufferVars, archiveVars, queueVars, mergeVars, interfaceVars, stageVars, storageVars, structVars>>
    \/ CyclerBoundary /\ UNCHANGED <<bufferVars, archiveVars, queueVars, mergeVars, interfaceVars, stageVars, storageVars, structVars>>
    \/ CycleOpen /\ UNCHANGED <<archiveVars, queueVars, mergeVars, interfaceVars, stageVars, storageVars, structVars>>
    \/ CycleFirstModule /\ UNCHANGED <<archiveVars, queueVars, mergeVars, interfaceVars, stageVars, storageVars, structVars>>
    \/ \E t \in Times : CycleAnnounce(t) /\ UNCHANGED <<bufferVars, archiveVars, mergeVars, interfaceVars, stageVars, storageVars, structVars>>
    \/ CycleRemainingModules /\ UNCHANGED <<archiveVars, queueVars, mergeVars, interfaceVars, stageVars, storageVars, structVars>>
    \/ CycleFinalize /\ UNCHANGED <<bufferVars, archiveVars, mergeVars, interfaceVars, stageVars, storageVars, structVars>>
    \/ CycleRelease /\ UNCHANGED <<archiveVars, queueVars, mergeVars, interfaceVars, stageVars, storageVars, structVars>>
    \/ CycleFail /\ UNCHANGED <<archiveVars, queueVars, mergeVars, interfaceVars, stageVars, storageVars, structVars>>
    \/ CancelElsewhere /\ UNCHANGED <<bufferVars, archiveVars, queueVars, mergeVars, interfaceVars, stageVars, storageVars, structVars>>
    \/ ConfigurationUpdate /\ UNCHANGED <<bufferVars, archiveVars, queueVars, mergeVars, interfaceVars, stageVars, storageVars, structVars>>
    \/ CyclerObserverNext /\ UNCHANGED <<archiveVars, queueVars, mergeVars, cyclerVars, interfaceVars, stageVars, storageVars, structVars>>
    \/ CyclerObserverDrop /\ UNCHANGED <<archiveVars, queueVars, mergeVars, cyclerVars, interfaceVars, stageVars, storageVars, structVars>>

SpecCycler == InitCycler /\ [][NextCycler]_vars


InitInterface ==
    /\ StructsIdle
    /\ StorageIdle
    /\ StagesIdle
    /\ BufferIdle
    /\ ArchiveIdle
    /\ QueueIdle
    /\ MergeIdle
    /\ CyclerIdle
    /\ ipc = [t \in InterfaceThreads |-> "boundary"]
    /\ ires = [t \in InterfaceThreads |-> "running"]
    /\ keepRunningCancelled = FALSE
    /\ stepFailed = FALSE
    /\ cameraRequested = [c \in Cameras |-> FALSE]
    /\ cameraUnblocked = [c \in Cameras |-> FALSE]
    /\ simSteps = 0
    /\ arrivals = [b \in BarrierReaders |-> 0]
    /\ returns = [b \in BarrierReaders |-> 0]
    /\ completions = 0

NextInterface ==
    \/ \E t \in InterfaceThreads : InterfaceBoundary(t) /\ UNCHANGED <<bufferVars, archiveVars, queueVars, mergeVars, cyclerVars, stageVars, storageVars, structVars>>
    \/ \E t \in InterfaceThreads, ok \in BOOLEAN : InterfaceStages(t, ok) /\ UNCHANGED <<bufferVars, archiveVars, queueVars, mergeVars, cyclerVars, stageVars, storageVars, structVars>>
    \/ \E ok \in BOOLEAN : step_simulation(ok) /\ UNCHANGED <<bufferVars, archiveVars, queueVars, mergeVars, cyclerVars, stageVars, storageVars, structVars>>
    \/ \E b \in BarrierReaders : ControlWait(b) /\ UNCHANGED <<bufferVars, archiveVars, queueVars, mergeVars, cyclerVars, stageVars, storageVars, structVars>>
    \/ SensorsStepFailed /\ UNCHANGED <<bufferVars, archiveVars, queueVars, mergeVars, cyclerVars, stageVars, storageVars, structVars>>
    \/ \E ok \in BOOLEAN : SensorsRead(ok) /\ UNCHANGED <<bufferVars, archiveVars, queueVars, mergeVars, cyclerVars, stageVars, storageVars, structVars>>
    \/ \E b \in BarrierReaders : ReaderWait(b) /\ UNCHANGED <<bufferVars, archiveVars, queueVars, mergeVars, cyclerVars, stageVars, storageVars, structVars>>
    \/ \E t \in BarrierReaders \cup Cameras : ReadReturns(t) /\ UNCHANGED <<bufferVars, archiveVars, queueVars, mergeVars, cyclerVars, stageVars, storageVars, structVars>>
    \/ \E c \in Cameras : CameraRead(c) /\ UNCHANGED <<bufferVars, archiveVars, queueVars, mergeVars, cyclerVars, stageVars, storageVars, structVars>>

SpecInterface == InitInterface /\ [][NextInterface]_vars

(* every thread is scheduled: a thread that can take a step takes one *)
InterfaceFairness ==
    \A t \in InterfaceThreads :
        WF_vars(InterfaceThreadStep(t)
                /\ UNCHANGED <<bufferVars, archiveVars, queueVars, mergeVars,
                               cyclerVars, stageVars, storageVars, structVars>>)

SpecInterfaceFair == SpecInterface /\ InterfaceFairness


(* one cycle over a slot of the own buffer: a default Database or the     *)
(* content an earlier cycle left in the slot; a module requires outputs   *)
(* of modules before it in the static order                               *)
InitStages ==
    /\ StructsIdle
    /\ StorageIdle
    /\ BufferIdle
    /\ ArchiveIdle
    /\ QueueIdle
    /\ MergeIdle
    /\ CyclerIdle
    /\ InterfaceIdle
    /\ \E dependencies \in SUBSET {<<i, f>> \in Stages \X Fields : f[1] < i} :
          required = [i \in Stages |->
                         {f \in Fields : <<i, f>> \in dependencies}]
    /\ \E content \in {"none", "some"} : outputs = [f \in Fields |-> content]
    /\ stagePc = 1
    /\ ran = [i \in Stages |-> "pending"]

NextStages ==
    \/ \E i \in Stages : get_execution(i) /\ UNCHANGED <<bufferVars, archiveVars, queueVars, mergeVars, cyclerVars, interfaceVars, storageVars, structVars>>

SpecStages == InitStages /\ [][NextStages]_vars


(* the buffer of the parameters is built, every slot with the initial     *)
(* parameters, the request channel is open and the task is spawned        *)
InitStorage ==
    /\ StructsIdle
    /\ ArchiveIdle
    /\ QueueIdle
    /\ MergeIdle
    /\ CyclerIdle
    /\ InterfaceIdle
    /\ StagesIdle
    /\ bufferState = "ready"
    /\ nSlots \in 1..MaxSlots
    /\ slots = [i \in 1..nSlots |-> 0]
    /\ current = 1
    /\ writing = {}
    /\ handles = [r \in Readers |-> NoHandle]
    /\ published = 0
    /\ writerStatus = "ok"
    /\ storagePc = "start"
    /\ parameters = 0
    /\ toPublish = 0
    /\ disk = 0
    /\ senders \in 1..MaxSenders
    /\ requestQueue = <<>>
    /\ request = NoRequest
    /\ outcome = "none"
    /\ nextId = 1
    /\ responses = <<>>
    /\ notifications = 0
    /\ storageTrace = <<>>

NextStorage ==
    \/ StorageStart /\ UNCHANGED <<archiveVars, queueVars, mergeVars, cyclerVars, interfaceVars, stageVars, structVars>>
    \/ \E k \in RequestKinds : SendRequest(k) /\ UNCHANGED <<bufferVars, archiveVars, queueVars, mergeVars, cyclerVars, interfaceVars, stageVars, structVars>>
    \/ DropSender /\ UNCHANGED <<bufferVars, archiveVars, queueVars, mergeVars, cyclerVars, interfaceVars, stageVars, structVars>>
    \/ Receive /\ UNCHANGED <<bufferVars, archiveVars, queueVars, mergeVars, cyclerVars, interfaceVars, stageVars, structVars>>
    \/ \E ok \in BOOLEAN : HandleUpdateParameter(ok) /\ UNCHANGED <<bufferVars, archiveVars, queueVars, mergeVars, cyclerVars, interfaceVars, stageVars, structVars>>
    \/ \E ok \in BOOLEAN : HandleLoadFromDisk(ok) /\ UNCHANGED <<bufferVars, archiveVars, queueVars, mergeVars, cyclerVars, interfaceVars, stageVars, structVars>>
    \/ \E ok \in BOOLEAN : HandleStoreToDisk(ok) /\ UNCHANGED <<bufferVars, archiveVars, queueVars, mergeVars, cyclerVars, interfaceVars, stageVars, structVars>>
    \/ PublishParameters /\ UNCHANGED <<archiveVars, queueVars, mergeVars, cyclerVars, interfaceVars, stageVars, structVars>>
    \/ NotifyParametersChanged /\ UNCHANGED <<bufferVars, archiveVars, queueVars, mergeVars, cyclerVars, interfaceVars, stageVars, structVars>>
    \/ \E delivered \in BOOLEAN : respond(delivered) /\ UNCHANGED <<bufferVars, archiveVars, queueVars, mergeVars, cyclerVars, interfaceVars, stageVars, structVars>>
    \/ ParametersReaderNext /\ UNCHANGED <<archiveVars, queueVars, mergeVars, cyclerVars, interfaceVars, stageVars, storageVars, structVars>>
    \/ ParametersReaderDrop /\ UNCHANGED <<archiveVars, queueVars, mergeVars, cyclerVars, interfaceVars, stageVars, storageVars, structVars>>

SpecStorage == InitStorage /\ [][NextStorage]_vars

(* the task is spawned on the runtime: it runs whenever it can take a step *)
StorageFairness ==
    WF_vars(StorageTaskStep
            /\ UNCHANGED <<archiveVars, queueVars, mergeVars, cyclerVars,
                           interfaceVars, stageVars, structVars>>)

SpecStorageFair == SpecStorage /\ StorageFairness


(* the hierarchies of Structs::default() are empty structs; the module   *)
(* analysed has one path field in each of its two contexts               *)
InitStructs ==
    /\ BufferIdle
    /\ ArchiveIdle
    /\ QueueIdle
    /\ MergeIdle
    /\ CyclerIdle
    /\ InterfaceIdle
    /\ StagesIdle
    /\ StorageIdle
    /\ hierarchy = DefaultHierarchy
    /\ insertedPath = <<>>
    /\ insertedType = "none"
    /\ insertionRules = <<>>
    /\ insertResult = "none"
    /\ contextPc = "new_context"

NextStructs ==
    \E path \in Paths, data_type \in DataTypes :
        InsertPath(path, data_type) /\ UNCHANGED <<bufferVars, archiveVars, queueVars, mergeVars, cyclerVars, interfaceVars, stageVars, storageVars>>

SpecStructs == InitStructs /\ [][NextStructs]_vars


(* ============================== claims ================================ *)

Min(S) == CHOOSE x \in S : \A y \in S : x <= y

C3_TwoSlotsOneReaderNeverBusy ==
    [][(nSlots = 2 /\ Cardinality(OpenHandles) <= 1 /\ writerStatus = "ok")
          => writerStatus' # "all_busy"]_vars

(* the one reader holds the older slot and the writer has taken the other *)
C3_Witness ==
    /\ nSlots = 2
    /\ Cardinality(OpenHandles) = 1
    /\ writing = {current}
    /\ \E r \in OpenHandles : handles[r].slot # current

(* C4: at most one write handle is open at any time; write() while one is *)
(* open aborts the caller, yields no second handle, and the aborted       *)
(* writer writes nothing more.                                             *)
C4_SingleWriter ==
    /\ [](Cardinality(writing) <= 1)
    /\ [][/\ (writerStatus = "ok" /\ writerStatus' = "double_open")
               => (writing # {} /\ writing' = writing)
          /\ writerStatus # "ok"
               => (writerStatus' = writerStatus /\ slots' = slots
                   /\ writing' \subseteq writing)
         ]_vars

(* a second write() was called while the write handle was open *)
C4_Witness == writerStatus = "double_open" /\ Cardinality(writing) = 1

(* C5: a construction with fewer than 2 slots yields no usable             *)
(* Writer/Reader pair.                                                     *)
C5_FewerThanTwoSlotsRejected == nSlots < 2 => bufferState # "ready"

(* C6: the archive never holds more than its capacity C; after C+k        *)
(* accepted records exactly the C most recent are retrievable, a lookup   *)
(* of an evicted timestamp is absent, and recording at capacity is not an *)
(* error (only an out-of-order record is).                                 *)
C6_KeepsMostRecent ==
    /\ [](LET n == Len(recorded)
              k == IF n < capacity THEN n ELSE capacity
          IN  /\ Len(archive) <= capacity
              /\ archive = SubSeq(recorded, n - k + 1, n)
              /\ \A i \in 1..n :
                    get(archive, recorded[i].ts)
                       = IF i > n - k THEN recorded[i] ELSE NoEntry)
    /\ [][archiveStatus' # archiveStatus
             => (archive # <<>> /\ lastCall'.t < Latest(archive))]_vars

(* more than C records were accepted and a lookup of the first, evicted,  *)
(* timestamp came back absent                                              *)
C6_Witness ==
    /\ Len(recorded) > capacity
    /\ Len(archive) = capacity
    /\ archiveStatus = "ok"
    /\ lastCall.op = "get"
    /\ lastCall.t = recorded[1].ts
    /\ lastCall.result = NoEntry

(* C7: record(t, v) with t earlier than the newest timestamp is flagged   *)
(* and not stored: the archive is unchanged by it, so the stored          *)
(* timestamps are non-decreasing in insertion order.                       *)
C7_OutOfOrderRejected ==
    /\ [](\A i, j \in 1..Len(archive) : i < j => archive[i].ts <= archive[j].ts)
    /\ [][(lastCall'.op = "record" /\ archive # <<>>
           /\ lastCall'.t < Latest(archive))
             => (archive' = archive /\ archiveStatus' = "out_of_order")]_vars

(* an out-of-order record was flagged on a non-empty archive *)
C7_Witness ==
    /\ archiveStatus = "out_of_order"
    /\ lastCall.op = "record"
    /\ Len(archive) >= 2
    /\ lastCall.t < Latest(archive)

(* C8: get(t) returns the entry stored at exactly t, and absent when no   *)
(* entry is stored at t.                                                   *)
C8_StrictLookup ==
    lastCall.op = "get" =>
        LET hits == {i \in 1..Len(archive) : archive[i].ts = lastCall.t}
        IN  IF hits = {} THEN lastCall.result = NoEntry
            ELSE \E i \in hits : lastCall.result = archive[i]

(* a strict lookup between two stored timestamps came back absent *)
C8_Witness ==
    /\ lastCall.op = "get"
    /\ lastCall.result = NoEntry
    /\ \E i \in 1..Len(archive) : archive[i].ts < lastCall.t
    /\ \E i \in 1..Len(archive) : archive[i].ts > lastCall.t

(* C9: get_at_or_before(t) returns the entry with the greatest timestamp  *)
(* not after t, and absent when no entry is at or before t.                *)
C9_SoftLookup ==
    lastCall.op = "get_at_or_before" =>
        LET cands == {i \in 1..Len(archive) : archive[i].ts <= lastCall.t}
        IN  IF cands = {} THEN lastCall.result = NoEntry
            ELSE \E i \in cands :
                    /\ lastCall.result = archive[i]
                    /\ \A j \in cands : archive[j].ts <= archive[i].ts

(* a soft lookup chose the nearer of two earlier entries *)
C9_Witness ==
    /\ lastCall.op = "get_at_or_before"
    /\ lastCall.result # NoEntry
    /\ lastCall.result.ts < lastCall.t
    /\ \E i \in 1..Len(archive) : archive[i].ts < lastCall.result.ts
    /\ \E i \in 1..Len(archive) : archive[i].ts > lastCall.t

OpenSet == {openAnnounces[i] : i \in 1..Len(openAnnounces)}

(* C10: earliest_open_timestamp() is the smallest announced timestamp not *)
(* yet finalized (none when there is none), and it moves to a later       *)
(* timestamp or to none only by the finalize of that timestamp.            *)
C10_EarliestOpen ==
    /\ [](earliest_open_timestamp(openAnnounces)
             = IF OpenSet = {} THEN None ELSE Min(OpenSet))
    /\ [][LET before == earliest_open_timestamp(openAnnounces)
              after == earliest_open_timestamp(openAnnounces')
          IN  (before # None /\ (after = None \/ after > before))
                 => /\ Len(completed') = Len(completed) + 1
                    /\ completed'[Len(completed')].ts = before
                    /\ before \notin {openAnnounces'[i] : i \in 1..Len(openAnnounces')}
         ]_vars

(* a later announce was finalized before an earlier one that is still     *)
(* open, after the earliest had advanced once                              *)
C10_Witness ==
    /\ Len(openAnnounces) >= 2
    /\ \E i \in 1..Len(completed) : completed[i].ts > Head(openAnnounces)
    /\ \E i \in 1..Len(completed) : completed[i].ts < Head(openAnnounces)

(* the owner's step is a drain: it leaves the "drain" position *)
DrainStep ==
    /\ ownerStatus = "ok"
    /\ ownerPc = "drain"
    /\ (ownerPc' = "prune" \/ ownerStatus' = "missing_entry")

(* the registered producers that report an earliest open timestamp *)
Reporting ==
    {p \in Registered : earliest_open_timestamp(inFlight[p]) # None}

(* C11: the earliest pending timestamp of the Aggregate is the minimum of *)
(* earliest_open_timestamp() over the registered producers that report    *)
(* one, and none when no producer reports one or there is no producer.    *)
C11_EarliestPending ==
    [][DrainStep =>
          reported' = IF Reporting = {} THEN None
                      ELSE Min({earliest_open_timestamp(inFlight[p]) :
                                   p \in Reporting})
      ]_vars

(* after a drain: of two producers one never announced and reported none, *)
(* the other has an open announce, and its timestamp was reported          *)
C11_Witness ==
    /\ producers = 2
    /\ ownerPc = "prune"
    /\ reported # None
    /\ \E p \in Registered : newest[p] = None
    /\ \E p \in Registered :
          inFlight[p] # <<>> /\ Head(inFlight[p]) = reported

(* the drain went through: no push hit a missing entry *)
CompletedDrain == DrainStep /\ ownerPc' = "prune"

(* the data of the completed entries of timestamp t, in queue order *)
DataAt(its, t) ==
    LET sel == SelectSeq(its, LAMBDA x : x.ts = t)
    IN  [i \in 1..Len(sel) |-> sel[i].data]

(* the payloads of producer p in the Aggregate entry of t *)
PayloadsIn(t, p) == {databases[t][p][i] : i \in 1..Len(databases[t][p])}

MissingEntryPending ==
    \E p \in Registered : \E i \in 1..Len(items[p]) :
       items[p][i].ts \notin DOMAIN databases

(* C13: draining a completed entry whose timestamp has no Aggregate entry *)
(* is fatal and observable: the owner aborts (and takes no further step), *)
(* the drain creates no Aggregate entry and is never taken for a          *)
(* completed drain.                                                        *)
C13_MissingEntryFatal ==
    [][/\ (DrainStep /\ MissingEntryPending) =>
             /\ ownerStatus' = "missing_entry"
             /\ ownerPc' = "drain"
             /\ DOMAIN databases' = DOMAIN databases
       /\ ownerStatus = "missing_entry" =>
             UNCHANGED <<ownerStatus, ownerPc, now, databases, reported>>
      ]_vars

(* the owner aborted in a drain *)
C13_Witness ==
    /\ ownerStatus = "missing_entry"
    /\ ownerPc = "drain"
    /\ \A p \in Registered : items[p] = <<>>

(* C14: in the composed system no drain ever addresses a missing          *)
(* Aggregate entry, under any interleaving of announce, finalize, drain   *)
(* and prune.                                                              *)
C14_NoDrainIntoMissingEntry == ownerStatus # "missing_entry"

(* the owner's step is a prune *)
PruneStep == ownerPc = "prune" /\ ownerPc' = "tick"

(* the timestamps producer p has announced and the owner has not drained: *)
(* the open announces and the completed entries still in the queue         *)
Undrained(p) ==
    {inFlight[p][i] : i \in 1..Len(inFlight[p])}
       \cup {items[p][i].ts : i \in 1..Len(items[p])}

(* C15: pruning never removes an Aggregate entry at or after the earliest *)
(* pending timestamp: an entry whose timestamp a producer has announced   *)
(* stays in the Aggregate until that producer's result has been drained   *)
(* into it.                                                                *)
C15_PendingEntryKept ==
    [][PruneStep =>
          \A p \in Registered : \A t \in Undrained(p) :
             t \in DOMAIN databases => t \in DOMAIN databases'
      ]_vars

(* the payloads of producer p that a step makes visible in the entry of t *)
NewlyVisible(t, p) ==
    {databases'[t][p][i] : i \in 1..Len(databases'[t][p])}
       \ (IF t \in DOMAIN databases THEN PayloadsIn(t, p) ELSE {})

(* A result is completed by the finalize of an open announce and carries  *)
(* the timestamp of that announce; it becomes visible only by a drain     *)
(* that finds it completed in the queue, in the entry keyed by its        *)
(* timestamp, and the first completed drain after the finalize does so.   *)
VisibleAtFirstDrainAfterFinalize ==
    /\ \A p \in Registered :
          (~DrainStep /\ items'[p] # items[p]) =>
             /\ Len(items'[p]) = Len(items[p]) + 1
             /\ items'[p][Len(items'[p])].data = finalizes'[p]
             /\ finalizes'[p] = finalizes[p] + 1
             /\ \E i \in 1..Len(inFlight[p]) :
                   inFlight[p][i] = items'[p][Len(items'[p])].ts
    /\ \A p \in Registered : \A t \in DOMAIN databases' :
          \A n \in NewlyVisible(t, p) :
             /\ DrainStep
             /\ \E i \in 1..Len(items[p]) :
                   items[p][i] = [ts |-> t, data |-> n]
    /\ CompletedDrain =>
          \A p \in Registered : \A i \in 1..Len(items[p]) :
             /\ items[p][i].ts \in DOMAIN databases'
             /\ \E j \in 1..Len(databases'[items[p][i].ts][p]) :
                   databases'[items[p][i].ts][p][j] = items[p][i].data

TickStep == ownerPc = "tick" /\ ownerPc' = "drain"

(* C17: the key set of the Aggregate is changed only by the owner: the    *)
(* tick adds the entry of the timestamp it originates, the prune only     *)
(* removes entries, and announce, finalize and drain leave the key set    *)
(* as it is.                                                               *)
C17_KeySetChangedByOwnerOnly ==
    [][/\ TickStep =>
             /\ now' \notin DOMAIN databases
             /\ DOMAIN databases' = DOMAIN databases \cup {now'}
       /\ PruneStep => DOMAIN databases' \subseteq DOMAIN databases
       /\ ~(TickStep \/ PruneStep) => DOMAIN databases' = DOMAIN databases
      ]_vars

(* entries were added by ticks, one was pruned, a drain delivered a       *)
(* result and another drain hit a missing entry                            *)
C17_Witness ==
    /\ now >= 2
    /\ 1 \notin DOMAIN databases
    /\ \E p \in Registered : \E t \in DOMAIN databases : databases[t][p] # <<>>
    /\ ownerStatus = "missing_entry"

(* the archive holds every entry recorded at or after T, and the strict   *)
(* lookup at T resolves                                                    *)
RetainsBackTo(T) ==
    /\ \A i \in 1..Len(recorded) :
          recorded[i].ts >= T => get(archive, recorded[i].ts) = recorded[i]
    /\ get(archive, T) # NoEntry

C18_OneFinalizePerAnnounce ==
    /\ [][/\ Len(completed') # Len(completed) =>
                LET t == completed'[Len(completed')].ts
                IN  /\ Len(completed') = Len(completed) + 1
                    /\ t \in OpenSet
                    /\ Len(openAnnounces') = Len(openAnnounces) - 1
                    /\ t \notin {openAnnounces'[i] :
                                    i \in 1..Len(openAnnounces')}
          /\ (cyclerPc = "release" /\ cyclerPc' = "boundary") =>
                trace = <<"announce", "finalize">>
         ]_vars
    /\ [](/\ \A i, j \in 1..Len(completed) :
                i # j => completed[i].ts # completed[j].ts
          /\ \A i \in 1..Len(completed) : completed[i].ts \notin OpenSet)

(* two cycles completed without error: two announces, each finalized *)
C18_Witness ==
    /\ cyclerPc = "boundary"
    /\ cycles = 2
    /\ Len(completed) = 2
    /\ openAnnounces = <<>>

(* a stage of the cycle in progress did not complete *)
StageFails ==
    /\ cyclerPc \in {"first", "remaining"}
    /\ cyclerPc' \notin {cyclerPc, "announce", "finalize"}

(* C20: when a stage of a cycle fails, the cycler sets the process-wide   *)
(* cancellation flag and its thread terminates with the error: it starts  *)
(* no further cycle and does not retry the failed one; Stopped is         *)
(* terminal.                                                               *)
C20_FailureCancelsAndStops ==
    /\ [][/\ StageFails =>
                /\ cancelled'
                /\ threadResult' = "err"
                /\ cyclerPc' = "stopped"
                /\ cycles' = cycles
          /\ cyclerPc = "stopped" =>
                UNCHANGED <<cyclerPc, threadResult, cycles, trace,
                            queueVars, slots, current, writing,
                            published>>
         ]_vars
    /\ [](threadResult = "err" => (cancelled /\ cyclerPc = "stopped"))

(* the second cycle failed after its announce: the thread stopped with    *)
(* the error, cancellation is set, the announce stays open                 *)
C20_Witness ==
    /\ threadResult = "err"
    /\ cyclerPc = "stopped"
    /\ cycles = 2
    /\ Len(completed) = 1
    /\ openAnnounces # <<>>

(* the stages of one cycle, from the opening of the write handle to its   *)
(* release, in the order the cycle goes through them                      *)
StageOrder ==
    <<"open", "first", "announce", "remaining", "finalize", "release",
      "boundary">>

InCycle == cyclerPc \in {"open", "first", "announce", "remaining",
                          "finalize", "release"}

(* the cycler moved from one stage of the cycle to the one after it *)
StageAdvances ==
    \E i \in 1..(Len(StageOrder) - 1) :
        cyclerPc = StageOrder[i] /\ cyclerPc' = StageOrder[i + 1]

AllStopped == \A t \in InterfaceThreads : ipc[t] = "stopped"

(* C22: once cancellation is set, every cycler thread of the simulator    *)
(* process eventually reaches Stopped; none stays blocked forever in a    *)
(* hardware read because another cycler has already stopped.              *)
C22_CancellationStopsEveryThread == keepRunningCancelled ~> AllStopped

(* the required inputs of module i are all present *)
RequiredPresent(i) == \A f \in required[i] : outputs[f] = "some"

IterationHidden ==
    /\ writing # {}
    /\ FirstOf(published) < cycles /\ RestOf(published) < cycles
    /\ \A r \in OpenHandles :
          FirstOf(handles[r].seen) < cycles /\ RestOf(handles[r].seen) < cycles

(* C24: every iteration of a real-time cycler goes through its steps in   *)
(* the fixed order, the drain of the perception results into the          *)
(* Aggregate coming after the stages and before the release of the write  *)
(* handle; the handle is open across the stages and the drain and no      *)
(* output of the iteration is visible to readers before the release.      *)
C24_RealTimeIterationOrder ==
    /\ [][kind = "RealTime" =>
             /\ (InCycle /\ cyclerPc' # cyclerPc) =>
                   StageAdvances \/ StageFails
             /\ (cyclerPc # "release" /\ cyclerPc' = "release") =>
                   cyclerPc = "drain"
         ]_vars
    /\ []((kind = "RealTime"
           /\ cyclerPc \in {"first", "announce", "remaining", "finalize",
                            "release"}) => IterationHidden)

(* C27: in each cycle of a perception cycler the own buffer is published  *)
(* before the result is finalized into the merge queue: whenever a result *)
(* is in the queue for the owner to drain, a read of the producer's       *)
(* buffer returns the state of that cycle or of a later one.              *)
C27_PublishedBeforeFinalized ==
    kind = "Perception" =>
        \A i \in 1..Len(completed) :
            /\ FirstOf(published) >= FirstOf(completed[i].data)
            /\ RestOf(published) >= RestOf(completed[i].data)

(* the state a reader is served: the content of the write handle that was *)
(* released last, and in it the outputs of one and the same cycle         *)
PublishedIsOfCompletedCycle == FirstOf(published) = RestOf(published)

(* C29: when a stage fails in the middle of a cycle, the partially        *)
(* written slot is not published: readers keep seeing the state of the    *)
(* last completed cycle and never a slot with the outputs of some stages  *)
(* of the failed cycle next to older outputs.                             *)
C29_FailedCycleNotPublished ==
    /\ [][StageFails => published' = published]_vars
    /\ []PublishedIsOfCompletedCycle

(* C30: within one cycle every stage reads its parameters from the same   *)
(* configuration snapshot: an update published while the cycle runs is    *)
(* not seen by the later stages of that cycle.                            *)
C30_OneConfigurationPerCycle ==
    cyclerPc \in {"finalize", "release"} => configFirst = configRest

Max(S) == CHOOSE x \in S : \A y \in S : x >= y

(* the responses that report a published value, by their position *)
PublishingResponses ==
    {j \in 1..Len(responses) :
        /\ responses[j].result = "ok"
        /\ responses[j].kind \in {"UpdateParameter", "LoadFromDisk"}}

(* the request in progress has published and its response is not out *)
PublishedSinceLastResponse ==
    /\ storagePc \in {"notify", "respond", "panicked"}
    /\ \E n \in 1..Len(storageTrace) : storageTrace[n] = "publish"

(* C25: for a successful UpdateParameter the new value is published to    *)
(* the buffer before the change notification and before the Ok response;  *)
(* a request gets exactly one response, which carries its id; a read      *)
(* after the response sees the updated value (until a later request       *)
(* publishes).                                                             *)
C25_PublishNotifyRespond ==
    [][/\ responses' # responses =>
             LET r == responses'[Len(responses')]
             IN  /\ responses' = Append(responses, r)
                 /\ r.id = request.id /\ r.kind = request.kind
                 /\ \A j \in 1..Len(responses) : responses[j].id # r.id
                 /\ (r.kind = "UpdateParameter" /\ r.result = "ok") =>
                       /\ storageTrace = <<"publish", "notify">>
                       /\ published = r.id
                       /\ current \notin writing /\ slots[current] = r.id
       /\ \A reader \in Readers :
             (/\ handles[reader] = NoHandle
              /\ handles'[reader] # NoHandle
              /\ PublishingResponses # {}
              /\ ~PublishedSinceLastResponse) =>
                LET last == responses[Max(PublishingResponses)]
                IN  last.kind = "UpdateParameter" =>
                       handles'[reader].seen = last.id
      ]_vars

(* the second request was an update, its Ok response is out, the task     *)
(* waits for the next request and a reader that came after holds the      *)
(* value of that update                                                   *)
C25_Witness ==
    /\ storagePc = "recv"
    /\ Len(responses) = 2
    /\ responses[2] = [kind |-> "UpdateParameter", id |-> 2, result |-> "ok"]
    /\ handles[1].slot # 0
    /\ handles[1].seen = 2
    /\ notifications >= 1

(* C26: the storage task returns once every request sender is dropped     *)
(* and every queued request is handled, and it does not return while a    *)
(* sender is alive or a request is queued: every request that was sent    *)
(* has its response by then.                                               *)
C26_TerminatesWhenSendersDropped ==
    /\ [](storagePc = "done" =>
             /\ senders = 0
             /\ requestQueue = <<>>
             /\ Len(responses) = nextId - 1)
    /\ [][storagePc = "done" => storagePc' = "done"]_vars
    /\ (senders = 0) ~> (storagePc \in {"done", "panicked"})

(* two requests were sent and answered, the senders were dropped and the  *)
(* task returned                                                          *)
C26_Witness ==
    /\ storagePc = "done"
    /\ senders = 0
    /\ Len(responses) = 2

(* the timestamp the owner's last drain reported as the earliest pending  *)
(* one; with nothing pending, the timestamp of the owner's own cycle      *)
ResolvedBefore == IF reported = None THEN now ELSE reported

C31_WorkingCopyIsPublished ==
    (storagePc = "recv" /\ writerStatus = "ok") => parameters = published

(* the last response added to responses by this step *)
NewResponse == responses'[Len(responses')]

(* C32: only a successful UpdateParameter or LoadFromDisk publishes and    *)
(* notifies: the task writes the buffer (after its start) only in the      *)
(* publish step, which only a successful handling of one of the two kinds  *)
(* leads to, and notifies only after it; a request answered with an error  *)
(* and every StoreToDisk is answered with nothing published and nothing    *)
(* notified since it was received; the task goes back to receiving only    *)
(* through the one response of the request in progress.                    *)
C32_OnlySuccessPublishes ==
    [][/\ (published' # published \/ slots' # slots \/ current' # current) =>
             storagePc \in {"start", "publish"}
       /\ (storagePc' = "publish" /\ storagePc # "publish") =>
             /\ storagePc = "handle"
             /\ request.kind \in {"UpdateParameter", "LoadFromDisk"}
       /\ notifications' # notifications =>
             /\ storagePc = "notify"
             /\ notifications' = notifications + 1
             /\ storageTrace = <<"publish">>
             /\ request.kind \in {"UpdateParameter", "LoadFromDisk"}
       /\ responses' # responses =>
             /\ responses' = Append(responses, NewResponse)
             /\ NewResponse.id = request.id
             /\ (NewResponse.result = "err" \/ NewResponse.kind = "StoreToDisk")
                   <=> storageTrace = <<>>
             /\ (NewResponse.result = "ok" /\ NewResponse.kind # "StoreToDisk")
                   <=> storageTrace = <<"publish", "notify">>
       /\ (storagePc' = "recv" /\ storagePc \notin {"start", "recv"}) =>
             /\ storagePc = "respond"
             /\ Len(responses') = Len(responses) + 1
      ]_vars

(* a failed update and a store were answered: the buffer still serves the  *)
(* initial parameters and nothing was notified                             *)
C32_Witness ==
    /\ storagePc = "recv"
    /\ Len(responses) = 2
    /\ responses[1] = [kind |-> "UpdateParameter", id |-> 1, result |-> "err"]
    /\ responses[2] = [kind |-> "StoreToDisk", id |-> 2, result |-> "ok"]
    /\ published = 0
    /\ notifications = 0

(* C33: the audio and the network reader advance in lockstep with the      *)
(* simulation: a reader has returned from at most as many reads as the     *)
(* simulation has made steps, and read_from_sensors has returned from at   *)
(* most as many calls as each reader has arrived at its barrier.          *)
C33_ReadersInLockstep ==
    \A b \in BarrierReaders :
        /\ returns[b] <= simSteps
        /\ completions <= arrivals[b]

(* two steps of the simulation, each followed by both readers *)
C33_Witness ==
    /\ simSteps = 2
    /\ completions = 2
    /\ \A b \in BarrierReaders : arrivals[b] = 2 /\ returns[b] = 2

(* control is in the read_from_sensors whose simulation step failed *)
InFailedRead ==
    /\ stepFailed
    /\ ipc["control"] \in {"arrive_audio", "blocked_audio", "arrive_network",
                           "blocked_network", "after_barriers"}

(* C34: when the simulation step fails, keep_running is cancelled before   *)
(* control reaches a barrier and before the camera reads are unblocked:   *)
(* every reader released from its barrier or from its camera read by that *)
(* read_from_sensors returns an error, and so does read_from_sensors.     *)
C34_CancelledBeforeRelease ==
    /\ [](InFailedRead => keepRunningCancelled)
    /\ [](\A c \in Cameras : cameraUnblocked[c] => keepRunningCancelled)
    /\ [][/\ \A t \in BarrierReaders \cup Cameras :
                (/\ InFailedRead \/ (t \in Cameras /\ cameraUnblocked[t])
                 /\ ipc[t] = "check"
                 /\ ipc'[t] # "check") =>
                   ipc'[t] = "stopped" /\ ires'[t] = "err"
          /\ (InFailedRead /\ ~InFailedRead') =>
                /\ ipc["control"] = "after_barriers"
                /\ ipc'["control"] = "stopped"
                /\ ires'["control"] = "err"
                /\ \A c \in Cameras : cameraUnblocked'[c]
         ]_vars

(* the step failed; both barrier readers and a camera that was waiting    *)
(* for its image were released and returned the error, as did control     *)
C34_Witness ==
    /\ stepFailed
    /\ simSteps = 2
    /\ ires["control"] = "err"
    /\ \A b \in BarrierReaders : ires[b] = "err" /\ returns[b] = 2
    /\ ires["top"] = "err"
    /\ cameraRequested["top"]

(* the instances of the cyclers of a type *)
InstancesOfType(type) ==
    UNION {modules_to_instances[m] :
             m \in {n \in DOMAIN cycler_modules_to_cycler_types :
                      cycler_modules_to_cycler_types[n] = type}}

(* the calls on own_producer in the cycle in progress *)
OwnProducerCalls ==
    {i \in 1..Len(trace) : trace[i] \in {"announce", "finalize"}}

(* C35: only a perception cycler has a producer end and announces and     *)
(* finalizes; a real-time cycler has one consumer end per perception      *)
(* instance and nothing else, a perception cycler one read handle per     *)
(* real-time instance and nothing else.                                   *)
C35_QueueEndsByKind ==
    /\ \A k \in CyclerKinds :
          get_own_producer_field(k) # {} <=> k = "Perception"
    /\ get_other_cyclers("RealTime") =
          {<<"Consumer", i>> : i \in InstancesOfType("Perception")}
    /\ get_other_cyclers("Perception") =
          {<<"Reader", i>> : i \in InstancesOfType("RealTime")}
    /\ OwnProducerCalls # {} => get_own_producer_field(kind) # {}

(* a segment text is marked optional by a trailing `?` *)
MarkedOptional(text) == text[Len(text)] = "?"

(* the name a segment text spells *)
NameIn(text) ==
    IF MarkedOptional(text) THEN SubSeq(text, 1, Len(text) - 1) ELSE text

(* the step inserts a path *)
Inserts == contextPc' # contextPc

(* the chain of nested structs of one path: one field per segment, its    *)
(* content in an Optional if the segment is marked optional, a Field of   *)
(* the data type at the end                                               *)
RECURSIVE ChainBelow(_, _)
ChainBelow(path, data_type) ==
    IF path = <<>> THEN [kind |-> "Field", data_type |-> data_type]
    ELSE LET below == ChainBelow(Tail(path), data_type)
         IN  [kind |-> "Struct",
              fields |-> (NameIn(Head(path)) :>
                            IF MarkedOptional(Head(path))
                            THEN [kind |-> "Optional", child |-> below]
                            ELSE below)]

(* C36: the insertion rules of one path, inserted into an empty           *)
(* hierarchy, give the chain of the path: one struct with one field per   *)
(* segment, wrapped in Optional exactly for the segments marked optional, *)
(* with a Field of the data type at the end.                              *)
C36_SinglePathGivesChain ==
    [][(Inserts /\ hierarchy = DefaultHierarchy) =>
          /\ insertResult' = "ok"
          /\ hierarchy' = ChainBelow(insertedPath', insertedType')
      ]_vars

(* the path a?.b of type f32 was inserted into the empty hierarchy *)
C36_Witness ==
    /\ contextPc = "cycle_context"
    /\ insertedPath = << <<"a", "?">>, <<"b">> >>
    /\ insertedType = "f32"
    /\ hierarchy =
          [kind |-> "Struct",
           fields |-> (<<"a">> :>
              [kind |-> "Optional",
               child |-> [kind |-> "Struct",
                          fields |-> (<<"b">> :>
                             [kind |-> "Field", data_type |-> "f32"])]])]

(* the path resolves in the hierarchy to a Field of the data type, every  *)
(* segment marked optional through an Optional                            *)
RECURSIVE Resolves(_, _, _)
Resolves(h, path, data_type) ==
    IF path = <<>>
    THEN h.kind = "Field" /\ h.data_type = data_type
    ELSE /\ h.kind = "Struct"
         /\ NameIn(Head(path)) \in DOMAIN h.fields
         /\ LET below == h.fields[NameIn(Head(path))]
            IN  IF MarkedOptional(Head(path))
                THEN /\ below.kind = "Optional"
                     /\ Resolves(below.child, Tail(path), data_type)
                ELSE Resolves(below, Tail(path), data_type)

(* C37: inserting a path that is present with the same data type          *)
(* succeeds and changes nothing; inserting a second path that shares its  *)
(* first segment with the first one succeeds, and both paths resolve      *)
(* under the one struct of the prefix.                                    *)
C37_InsertIsIdempotent ==
    [][/\ (Inserts /\ Resolves(hierarchy, insertedPath', insertedType')) =>
             /\ insertResult' = "ok"
             /\ hierarchy' = hierarchy
       /\ (/\ Inserts
           /\ contextPc = "cycle_context"
           /\ Len(insertedPath) = 2 /\ Len(insertedPath') = 2
           /\ insertedPath'[1] = insertedPath[1]
           /\ NameIn(insertedPath'[2]) # NameIn(insertedPath[2])) =>
             /\ insertResult' = "ok"
             /\ Resolves(hierarchy', insertedPath, insertedType)
             /\ Resolves(hierarchy', insertedPath', insertedType')
             /\ DOMAIN hierarchy'.fields = {NameIn(insertedPath[1])}
      ]_vars

(* C38: an insert that returns Ok leaves a hierarchy in which the         *)
(* inserted path resolves to a Field of the inserted data type.           *)
C38_OkInsertResolves ==
    [][(Inserts /\ insertResult' = "ok") =>
          Resolves(hierarchy', insertedPath', insertedType')
      ]_vars

(* the number of rules before those of segment i of the path *)
RulesBefore(path, i) ==
    2 * (i - 1) + Cardinality({j \in 1..(i - 1) : MarkedOptional(path[j])})

(* C39: the insertion rules of a path are, segment by segment in order,   *)
(* BeginStruct, InsertField of the segment's name and, only for a         *)
(* segment marked optional, BeginOptional, and then one AppendDataType of *)
(* the data type: 2n + m + 1 rules for n segments of which m are          *)
(* optional.                                                              *)
C39_RulesOfPath ==
    insertResult \in {"ok", "err"} =>
        LET n == Len(insertedPath)
            m == Cardinality({j \in 1..n : MarkedOptional(insertedPath[j])})
        IN  /\ Len(insertionRules) = 2 * n + m + 1
            /\ insertionRules[2 * n + m + 1] = <<"AppendDataType", insertedType>>
            /\ \A i \in 1..n :
                  LET before == RulesBefore(insertedPath, i)
                  IN  /\ insertionRules[before + 1] = <<"BeginStruct">>
                      /\ insertionRules[before + 2] =
                            <<"InsertField", NameIn(insertedPath[i])>>
                      /\ MarkedOptional(insertedPath[i]) =>
                            insertionRules[before + 3] = <<"BeginOptional">>

(* the rules of the path a?.b: six of them *)
C39_Witness ==
    /\ insertResult = "ok"
    /\ insertedPath = << <<"a", "?">>, <<"b">> >>
    /\ insertionRules =
          << <<"BeginStruct">>, <<"InsertField", <<"a">>>>, <<"BeginOptional">>,
             <<"BeginStruct">>, <<"InsertField", <<"b">>>>,
             <<"AppendDataType", insertedType>> >>

=============================================================================
